---- MODULE Spec2Model ----
(***************************************************************************)
(* State-machine model of the privacy-pool program (solana-privacy-pools). *)
(*                                                                         *)
(* The pool record, the depositor records and the nullifier records are    *)
(* modelled at the level of their fields.  The transition handlers are the *)
(* ones of src/src/instructions/{initialize,deposit,withdraw,ragequit,     *)
(* wind_down}.rs; the pool record they share has the fields of             *)
(* PrivacyPoolStateZC / PrivacyPoolState (which carry the same fields and  *)
(* the same tree algorithm).  The dynamic-depth tree LeanIMTStateZC of     *)
(* src/src/state/lean_imt.rs is modelled as a separate object: no handler  *)
(* references it; so is the Vec-backed LeanIMT of crypto/merkle_tree.rs.   *)
(* Instruction data is modelled as bytes (try_from_slice), and so is the   *)
(* persisted form of the heap-allocated PrivacyPoolState of state.rs; the  *)
(* zero-copy records are modelled by their fields only.                    *)
(*                                                                         *)
(* Digests are terms: a hash is the tuple of its tag and its inputs, so    *)
(* two digests are equal exactly when they were computed the same way      *)
(* (hashes are treated as collision free).                                 *)
(***************************************************************************)
EXTENDS Integers, Sequences, FiniteSets, TLC

VARIABLES
    pool,        \* the pool record (account 0 of every handler)
    depositors,  \* depositor record accounts, by account
    nullifiers,  \* nullifier record accounts, by the nullifier hash they are addressed by
    lean,        \* a PoolStateLeanIMT record (state tree and ASP tree are LeanIMTStateZC)
    imt,         \* a Vec-backed LeanIMT (crypto/merkle_tree.rs)
    last,        \* the last call: [op, result, changed, args]
    inserted,    \* log: the leaves put into the state tree since initialization, with the root pushed
    spends       \* log: the successful nullifier spends [op, h]

vars == <<pool, depositors, nullifiers, lean, imt, last, inserted, spends>>

----------------------------------------------------------------------------
(* Program constants *)

\* constants::ROOT_HISTORY_SIZE
ROOT_HISTORY_SIZE == 64

\* constants::MAX_TREE_DEPTH
MAX_TREE_DEPTH == 32

\* `u128::MAX as u64` = u64::MAX, the largest deposit value; the model's
\* value domain is 0..U64_MAX with U64_MAX the largest integer TLC represents.
U64_MAX == 2147483647

\* lean_imt.rs has its own MAX_TREE_DEPTH (= 32) sizing side_nodes.  A tree of
\* 2^32 leaves is out of reach of explicit-state checking, so the stand-alone
\* LeanIMT is checked with this scaled depth; side_nodes has
\* LEAN_MAX_TREE_DEPTH + 1 slots as in the source.
LEAN_MAX_TREE_DEPTH == 3

\* lean_imt.rs: leaf_indices: [[u8; 32]; 1024], fewer slots than the 2^32
\* leaves the side nodes allow; scaled with LEAN_MAX_TREE_DEPTH to fewer
\* slots than the 2^LEAN_MAX_TREE_DEPTH leaves of the scaled tree
LEAF_INDEX_CAPACITY == 6

(* Bounds of the model *)

\* at most this many leaves are put into the state tree in Spec
MaxLeaves == 3

\* at most this many successful nullifier spends in Spec
MaxSpends == 2

\* length of the deposit chain of SpecChain, beyond ROOT_HISTORY_SIZE
ChainExtra == 3

\* number of leading inserts of SpecLean that choose among two fresh leaves
LeanBranch == 3

\* at most this many labels are put into the ASP tree in SpecLean
MaxAspLabels == 2

\* the Vec-backed LeanIMT is filled up to 2^VEC_MAX_DEPTH leaves and one more
VEC_MAX_DEPTH == 3

----------------------------------------------------------------------------
(* Digests and keys *)

Zero == <<"zero">>                       \* [0u8; 32]

Digest(n) == <<"d", n>>                  \* an input digest chosen by a caller

NoKey == "0"                             \* the all-zero pubkey of a fresh account
Keys == {"A", "B"}                       \* signers
Mints == {"mint"}

\* crypto/poseidon.rs hash_two
hash_two(left, right) == <<"poseidon2", left, right>>

\* crypto/poseidon.rs hash_three
hash_three(a, b, c) == <<"poseidon3", a, b, c>>

\* initialize.rs: keccak("PrivacyPool", asset_mint)
generate_scope(asset_mint) == <<"keccak_scope", asset_mint>>

\* a variant of compute_label that leaves the nonce out of the hash
compute_label_no_nonce(scope, nonce) == <<"keccak_label", scope, 0>>

\* crypto/poseidon.rs compute_label: keccak(scope, LE64(nonce)), returned as is
compute_label(scope, nonce) == <<"keccak_label", scope, nonce>>

\* crypto/poseidon.rs compute_commitment
compute_commitment(value, label, precommitment_hash) ==
    hash_three(<<"le256", value>>, label, precommitment_hash)

\* crypto/poseidon.rs compute_context
compute_context(withdrawal, scope) ==
    <<"keccak_context", withdrawal.processooor, withdrawal.data, scope>>

----------------------------------------------------------------------------
(* The pool record: PrivacyPoolStateZC and its embedded MerkleTreeStateZC *)

\* a freshly created (all-zero) MerkleTreeStateZC
ZeroMerkleTree ==
    [root |-> Zero, depth |-> 0, next_index |-> 0,
     filled_subtrees |-> [i \in 0..(MAX_TREE_DEPTH - 1) |-> Zero],
     zeros |-> [i \in 0..(MAX_TREE_DEPTH - 1) |-> Zero]]

\* a freshly created (all-zero) pool account
ZeroPool ==
    [is_initialized |-> 0, entrypoint_authority |-> NoKey, asset_mint |-> NoKey,
     scope |-> Zero, nonce |-> 0, dead |-> 0, max_tree_depth |-> 0,
     current_root_index |-> 0,
     roots |-> [i \in 0..(ROOT_HISTORY_SIZE - 1) |-> Zero],
     merkle_tree |-> ZeroMerkleTree]

is_initialized(p) == p.is_initialized # 0

\* a variant of is_dead that never reports a dead pool
is_dead_never(p) == FALSE

is_dead(p) == p.dead # 0

increment_nonce(p) == [p EXCEPT !.nonce = @ + 1]

\* a variant of is_known_root that never reports the all-zero digest as known
is_known_root_nonzero(p, root) ==
    root # Zero /\ \E i \in 0..(ROOT_HISTORY_SIZE - 1) : p.roots[i] = root

is_known_root(p, root) == \E i \in 0..(ROOT_HISTORY_SIZE - 1) : p.roots[i] = root

\* a variant of add_root whose ring wraps one slot early
add_root_short(p, root) ==
    LET index == p.current_root_index % ROOT_HISTORY_SIZE IN
    [p EXCEPT !.roots[index] = root,
              !.current_root_index = (p.current_root_index + 1) % (ROOT_HISTORY_SIZE - 1)]

add_root(p, root) ==
    [p EXCEPT !.roots[p.current_root_index % ROOT_HISTORY_SIZE] = root,
              !.current_root_index = (p.current_root_index + 1) % ROOT_HISTORY_SIZE]

\* the loop of MerkleTreeStateZC::insert, from level i on
RECURSIVE InsertLevels(_, _, _, _)
InsertLevels(mt, i, current_index, current_level_hash) ==
    IF i >= mt.depth
    THEN [mt EXCEPT !.root = current_level_hash, !.next_index = @ + 1]
    ELSE IF current_index % 2 = 0
         THEN InsertLevels([mt EXCEPT !.filled_subtrees[i] = current_level_hash],
                           i + 1, current_index \div 2,
                           hash_two(current_level_hash, mt.zeros[i]))
         ELSE InsertLevels(mt, i + 1, current_index \div 2,
                           hash_two(mt.filled_subtrees[i], current_level_hash))

\* MerkleTreeStateZC::insert (MerkleTreeState::insert is the same algorithm); it always returns Ok
merkle_tree_insert(mt, leaf) == InsertLevels(mt, 0, mt.next_index, leaf)

Min(a, b) == IF a < b THEN a ELSE b

init_zeros(mt) ==
    [mt EXCEPT !.zeros[0] = Zero,
               !.root = Zero,
               !.filled_subtrees =
                   [i \in 0..(MAX_TREE_DEPTH - 1) |->
                       IF i < Min(mt.depth, MAX_TREE_DEPTH) THEN Zero ELSE @[i]],
               !.next_index = 0]

----------------------------------------------------------------------------
(* Depositor and nullifier records *)

DepAccts == {"da1"}                 \* accounts of DepositorStateZC::LEN bytes
BadAcct == "short"                  \* an account whose data_len is not the record's LEN

ZeroDepositor == [depositor |-> NoKey, label |-> Zero]

depositor_set(depositor, label) == [depositor |-> depositor, label |-> label]

NullHashes == {Digest(71), Digest(72)}

ZeroNullifier == [is_spent |-> 0, nullifier_hash |-> Zero]

\* a variant of set_spent that stores the hash but not the spent flag
set_spent_unflagged(nullifier_hash) == [is_spent |-> 0, nullifier_hash |-> nullifier_hash]

\* NullifierStateZC::set_spent / NullifierState::new written to the account
set_spent(nullifier_hash) == [is_spent |-> 1, nullifier_hash |-> nullifier_hash]

----------------------------------------------------------------------------
(* Proof data *)

\* WithdrawProofData accessors; public_signals[k] of the source is ps[k + 1]
state_root(ps) == ps[2]
state_tree_depth(ps) == ps[3] % 256          \* public_signals[2][0]: the low byte
asp_root(ps) == ps[4]
asp_tree_depth(ps) == ps[5] % 256            \* public_signals[4][0]: the low byte
context(ps) == ps[6]
new_commitment_hash(ps) == ps[7]
existing_nullifier_hash(ps) == ps[8]

\* RagequitProofData accessors
rq_label(ps) == ps[2]
rq_nullifier_hash(ps) == ps[4]

\* the Groth16 predicate: a function of the proof data alone
verify_withdraw_proof(proof_data) == proof_data.proof_ok

verify_ragequit_proof(proof_data) == proof_data.proof_ok

----------------------------------------------------------------------------
(* The transition handlers.  Each is a function of the accounts it is      *)
(* handed and of its arguments, and returns the result together with the   *)
(* account contents it leaves behind.  Results are named by the error kind *)
(* of the guard that fails (every such guard of the source returns a       *)
(* ProgramError after logging the reason).                                 *)

\* the record a pool initialized with arguments a would hold, whatever p held
reinitialized(p, a) ==
    [p EXCEPT !.is_initialized = 1,
              !.entrypoint_authority = a.entrypoint_authority,
              !.asset_mint = a.asset_mint,
              !.scope = generate_scope(a.asset_mint),
              !.nonce = 0,
              !.dead = 0,
              !.max_tree_depth = a.max_tree_depth,
              !.current_root_index = 0,
              !.roots = [i \in 0..(ROOT_HISTORY_SIZE - 1) |-> Zero],
              !.merkle_tree = init_zeros([p.merkle_tree EXCEPT !.depth = a.max_tree_depth])]

\* a variant of initialize_pool without the already-initialized guard
initialize_pool_unchecked(p, a) ==
    IF ~a.is_signer THEN [result |-> "MissingSignature", pool |-> p]
    ELSE IF a.max_tree_depth = 0 \/ a.max_tree_depth > MAX_TREE_DEPTH
    THEN [result |-> "InvalidArgument", pool |-> p]
    ELSE [result |-> "Ok", pool |-> reinitialized(p, a)]

\* a variant of initialize_pool whose depth guard only rejects depths above the maximum
initialize_pool_no_zero_check(p, a) ==
    IF ~a.is_signer THEN [result |-> "MissingSignature", pool |-> p]
    ELSE IF a.max_tree_depth > MAX_TREE_DEPTH
    THEN [result |-> "InvalidArgument", pool |-> p]
    ELSE IF is_initialized(p) THEN [result |-> "AlreadyInitialized", pool |-> p]
    ELSE [result |-> "Ok", pool |-> reinitialized(p, a)]

\* instructions/initialize.rs initialize_pool
\* a: [is_signer, entrypoint_authority, max_tree_depth, asset_mint]
initialize_pool(p, a) ==
    IF ~a.is_signer THEN [result |-> "MissingSignature", pool |-> p]
    ELSE IF a.max_tree_depth = 0 \/ a.max_tree_depth > MAX_TREE_DEPTH
    THEN [result |-> "InvalidArgument", pool |-> p]
    ELSE IF is_initialized(p) THEN [result |-> "AlreadyInitialized", pool |-> p]
    ELSE LET p1 == [p EXCEPT !.is_initialized = 1,
                             !.entrypoint_authority = a.entrypoint_authority,
                             !.asset_mint = a.asset_mint,
                             !.scope = generate_scope(a.asset_mint),
                             !.nonce = 0,
                             !.dead = 0,
                             !.max_tree_depth = a.max_tree_depth,
                             !.current_root_index = 0,
                             !.merkle_tree.depth = a.max_tree_depth,
                             !.merkle_tree.next_index = 0]
             p2 == [p1 EXCEPT !.merkle_tree = init_zeros(p1.merkle_tree)]
             p3 == [p2 EXCEPT !.roots = [i \in 0..(ROOT_HISTORY_SIZE - 1) |-> Zero]]
         IN  [result |-> "Ok", pool |-> p3]

\* a variant of deposit that pushes the root read before the tree insert
deposit_stale_root(p, deps, a) ==
    IF ~a.is_signer THEN [result |-> "MissingSignature", pool |-> p, depositors |-> deps]
    ELSE IF a.signer # a.depositor
    THEN [result |-> "InvalidArgument", pool |-> p, depositors |-> deps]
    ELSE IF is_dead(p) THEN [result |-> "PoolDead", pool |-> p, depositors |-> deps]
    ELSE IF a.value >= U64_MAX
    THEN [result |-> "InvalidArgument", pool |-> p, depositors |-> deps]
    ELSE LET p1 == increment_nonce(p)
             nonce == p1.nonce
             label == compute_label(p1.scope, nonce)
             commitment == compute_commitment(a.value, label, a.precommitment_hash)
             p2 == [p1 EXCEPT !.merkle_tree = merkle_tree_insert(@, commitment)]
             p3 == add_root(p2, p1.merkle_tree.root)
         IN  \* the pool account has been written in place by now
             IF a.depositor_account \notin DepAccts
             THEN [result |-> "InvalidAccountData", pool |-> p3, depositors |-> deps]
             ELSE [result |-> "Ok", pool |-> p3,
                   depositors |-> [deps EXCEPT ![a.depositor_account] =
                                       depositor_set(a.depositor, label)]]

\* instructions/deposit.rs deposit
\* a: [signer, is_signer, depositor, value, precommitment_hash, depositor_account]
deposit(p, deps, a) ==
    IF ~a.is_signer THEN [result |-> "MissingSignature", pool |-> p, depositors |-> deps]
    ELSE IF a.signer # a.depositor
    THEN [result |-> "InvalidArgument", pool |-> p, depositors |-> deps]
    ELSE IF is_dead(p) THEN [result |-> "PoolDead", pool |-> p, depositors |-> deps]
    ELSE IF a.value >= U64_MAX
    THEN [result |-> "InvalidArgument", pool |-> p, depositors |-> deps]
    ELSE LET p1 == increment_nonce(p)
             nonce == p1.nonce
             label == compute_label(p1.scope, nonce)
             commitment == compute_commitment(a.value, label, a.precommitment_hash)
             p2 == [p1 EXCEPT !.merkle_tree = merkle_tree_insert(@, commitment)]
             p3 == add_root(p2, p2.merkle_tree.root)
         IN  \* the pool account has been written in place by now
             IF a.depositor_account \notin DepAccts
             THEN [result |-> "InvalidAccountData", pool |-> p3, depositors |-> deps]
             ELSE [result |-> "Ok", pool |-> p3,
                   depositors |-> [deps EXCEPT ![a.depositor_account] =
                                       depositor_set(a.depositor, label)]]

\* a variant of withdraw that rejects every call once the pool is dead
withdraw_live_only(p, nulls, a) ==
    LET ps == a.proof.public_signals IN
    IF a.signer # a.withdrawal.processooor
    THEN [result |-> "InvalidProcessor", pool |-> p, nullifiers |-> nulls]
    ELSE IF ~a.is_signer
    THEN [result |-> "MissingSignature", pool |-> p, nullifiers |-> nulls]
    ELSE IF p.dead # 0
    THEN [result |-> "PoolDead", pool |-> p, nullifiers |-> nulls]
    ELSE IF compute_context(a.withdrawal, p.scope) # context(ps)
    THEN [result |-> "ContextMismatch", pool |-> p, nullifiers |-> nulls]
    ELSE IF state_tree_depth(ps) > p.max_tree_depth \/ asp_tree_depth(ps) > p.max_tree_depth
    THEN [result |-> "InvalidDepth", pool |-> p, nullifiers |-> nulls]
    ELSE IF ~is_known_root(p, state_root(ps))
    THEN [result |-> "UnknownRoot", pool |-> p, nullifiers |-> nulls]
    ELSE IF ~verify_withdraw_proof(a.proof)
    THEN [result |-> "InvalidProof", pool |-> p, nullifiers |-> nulls]
    ELSE LET h == existing_nullifier_hash(ps)
             p1 == [p EXCEPT !.merkle_tree = merkle_tree_insert(@, new_commitment_hash(ps))]
             p2 == add_root(p1, p1.merkle_tree.root)
         IN  [result |-> "Ok", pool |-> p2,
              nullifiers |-> [nulls EXCEPT ![h] = set_spent(h)]]

\* a variant of withdraw that does not compare the context signal
withdraw_no_context(p, nulls, a) ==
    LET ps == a.proof.public_signals IN
    IF a.signer # a.withdrawal.processooor
    THEN [result |-> "InvalidProcessor", pool |-> p, nullifiers |-> nulls]
    ELSE IF ~a.is_signer
    THEN [result |-> "MissingSignature", pool |-> p, nullifiers |-> nulls]
    ELSE IF state_tree_depth(ps) > p.max_tree_depth \/ asp_tree_depth(ps) > p.max_tree_depth
    THEN [result |-> "InvalidDepth", pool |-> p, nullifiers |-> nulls]
    ELSE IF ~is_known_root(p, state_root(ps))
    THEN [result |-> "UnknownRoot", pool |-> p, nullifiers |-> nulls]
    ELSE IF ~verify_withdraw_proof(a.proof)
    THEN [result |-> "InvalidProof", pool |-> p, nullifiers |-> nulls]
    ELSE LET h == existing_nullifier_hash(ps)
             p1 == [p EXCEPT !.merkle_tree = merkle_tree_insert(@, new_commitment_hash(ps))]
             p2 == add_root(p1, p1.merkle_tree.root)
         IN  [result |-> "Ok", pool |-> p2,
              nullifiers |-> [nulls EXCEPT ![h] = set_spent(h)]]

\* a variant of withdraw that advances the nonce as deposit does
withdraw_counting(p, nulls, a) ==
    LET ps == a.proof.public_signals IN
    IF a.signer # a.withdrawal.processooor
    THEN [result |-> "InvalidProcessor", pool |-> p, nullifiers |-> nulls]
    ELSE IF ~a.is_signer
    THEN [result |-> "MissingSignature", pool |-> p, nullifiers |-> nulls]
    ELSE IF compute_context(a.withdrawal, p.scope) # context(ps)
    THEN [result |-> "ContextMismatch", pool |-> p, nullifiers |-> nulls]
    ELSE IF state_tree_depth(ps) > p.max_tree_depth \/ asp_tree_depth(ps) > p.max_tree_depth
    THEN [result |-> "InvalidDepth", pool |-> p, nullifiers |-> nulls]
    ELSE IF ~is_known_root(p, state_root(ps))
    THEN [result |-> "UnknownRoot", pool |-> p, nullifiers |-> nulls]
    ELSE IF ~verify_withdraw_proof(a.proof)
    THEN [result |-> "InvalidProof", pool |-> p, nullifiers |-> nulls]
    ELSE LET h == existing_nullifier_hash(ps)
             p1 == [p EXCEPT !.merkle_tree = merkle_tree_insert(@, new_commitment_hash(ps))]
             p2 == increment_nonce(add_root(p1, p1.merkle_tree.root))
         IN  [result |-> "Ok", pool |-> p2,
              nullifiers |-> [nulls EXCEPT ![h] = set_spent(h)]]

\* instructions/withdraw.rs withdraw
\* a: [signer, is_signer, withdrawal: [processooor, data], proof: [public_signals, proof_ok]]
withdraw(p, nulls, a) ==
    LET ps == a.proof.public_signals IN
    IF a.signer # a.withdrawal.processooor
    THEN [result |-> "InvalidProcessor", pool |-> p, nullifiers |-> nulls]
    ELSE IF ~a.is_signer
    THEN [result |-> "MissingSignature", pool |-> p, nullifiers |-> nulls]
    ELSE IF compute_context(a.withdrawal, p.scope) # context(ps)
    THEN [result |-> "ContextMismatch", pool |-> p, nullifiers |-> nulls]
    ELSE IF state_tree_depth(ps) > p.max_tree_depth \/ asp_tree_depth(ps) > p.max_tree_depth
    THEN [result |-> "InvalidDepth", pool |-> p, nullifiers |-> nulls]
    ELSE IF ~is_known_root(p, state_root(ps))
    THEN [result |-> "UnknownRoot", pool |-> p, nullifiers |-> nulls]
    ELSE IF ~verify_withdraw_proof(a.proof)
    THEN [result |-> "InvalidProof", pool |-> p, nullifiers |-> nulls]
    ELSE LET h == existing_nullifier_hash(ps)
             p1 == [p EXCEPT !.merkle_tree = merkle_tree_insert(@, new_commitment_hash(ps))]
             p2 == add_root(p1, p1.merkle_tree.root)
         IN  [result |-> "Ok", pool |-> p2,
              nullifiers |-> [nulls EXCEPT ![h] = set_spent(h)]]

\* a variant of ragequit that does not compare the signer with the stored depositor
ragequit_any_signer(p, deps, nulls, a) ==
    LET ps == a.proof.public_signals
        Err(e) == [result |-> e, pool |-> p, depositors |-> deps, nullifiers |-> nulls]
    IN
    IF ~a.is_signer THEN Err("MissingSignature")
    ELSE IF a.depositor_account \notin DepAccts THEN Err("InvalidAccountData")
    ELSE IF deps[a.depositor_account].label # rq_label(ps) THEN Err("NotOriginalDepositor")
    ELSE IF ~verify_ragequit_proof(a.proof) THEN Err("InvalidProof")
    ELSE LET h == rq_nullifier_hash(ps)
         IN  [result |-> "Ok", pool |-> p, depositors |-> deps,
              nullifiers |-> [nulls EXCEPT ![h] = set_spent(h)]]

\* a variant of ragequit that counts the exit in the pool's nonce
ragequit_counting(p, deps, nulls, a) ==
    LET ps == a.proof.public_signals
        Err(e) == [result |-> e, pool |-> p, depositors |-> deps, nullifiers |-> nulls]
    IN
    IF ~a.is_signer THEN Err("MissingSignature")
    ELSE IF a.depositor_account \notin DepAccts THEN Err("InvalidAccountData")
    ELSE IF deps[a.depositor_account].depositor # a.signer THEN Err("NotOriginalDepositor")
    ELSE IF deps[a.depositor_account].label # rq_label(ps) THEN Err("NotOriginalDepositor")
    ELSE IF ~verify_ragequit_proof(a.proof) THEN Err("InvalidProof")
    ELSE LET h == rq_nullifier_hash(ps)
         IN  [result |-> "Ok", pool |-> increment_nonce(p), depositors |-> deps,
              nullifiers |-> [nulls EXCEPT ![h] = set_spent(h)]]

\* instructions/ragequit.rs ragequit
\* a: [signer, is_signer, depositor_account, proof: [public_signals, proof_ok]]
\* The pool record is only read (PrivacyPoolStateZC::from_account, an
\* immutable reference that is not used), the depositor record is only
\* compared; the one write is set_spent on the nullifier record.
ragequit(p, deps, nulls, a) ==
    LET ps == a.proof.public_signals
        Err(e) == [result |-> e, pool |-> p, depositors |-> deps, nullifiers |-> nulls]
    IN
    IF ~a.is_signer THEN Err("MissingSignature")
    ELSE IF a.depositor_account \notin DepAccts THEN Err("InvalidAccountData")
    ELSE IF deps[a.depositor_account].depositor # a.signer THEN Err("NotOriginalDepositor")
    ELSE IF deps[a.depositor_account].label # rq_label(ps) THEN Err("NotOriginalDepositor")
    ELSE IF ~verify_ragequit_proof(a.proof) THEN Err("InvalidProof")
    ELSE LET h == rq_nullifier_hash(ps)
         IN  [result |-> "Ok", pool |-> p, depositors |-> deps,
              nullifiers |-> [nulls EXCEPT ![h] = set_spent(h)]]

\* a variant of wind_down that accepts any signer
wind_down_any_signer(p, a) ==
    IF ~a.is_signer THEN [result |-> "MissingSignature", pool |-> p]
    ELSE IF is_dead(p) THEN [result |-> "PoolDead", pool |-> p]
    ELSE [result |-> "Ok", pool |-> [p EXCEPT !.dead = 1]]

\* a variant of wind_down that flips the dead flag instead of rejecting a dead pool
wind_down_toggle(p, a) ==
    IF ~a.is_signer THEN [result |-> "MissingSignature", pool |-> p]
    ELSE IF p.entrypoint_authority # a.signer THEN [result |-> "InvalidArgument", pool |-> p]
    ELSE [result |-> "Ok", pool |-> [p EXCEPT !.dead = 1 - @]]

\* instructions/wind_down.rs wind_down
\* a: [signer, is_signer]
wind_down(p, a) ==
    IF ~a.is_signer THEN [result |-> "MissingSignature", pool |-> p]
    ELSE IF p.entrypoint_authority # a.signer THEN [result |-> "InvalidArgument", pool |-> p]
    ELSE IF is_dead(p) THEN [result |-> "PoolDead", pool |-> p]
    ELSE [result |-> "Ok", pool |-> [p EXCEPT !.dead = 1]]

----------------------------------------------------------------------------
(* LeanIMTStateZC and PoolStateLeanIMT (src/src/state/lean_imt.rs) *)

Pow2(n) == 2 ^ n

\* LeanIMTStateZC::initialize; leaf_indices[0..leaf_count) is kept as a sequence
lean_initialize ==
    [size |-> 0, depth |-> 0,
     side_nodes |-> [i \in 0..LEAN_MAX_TREE_DEPTH |-> Zero],
     leaf_indices |-> <<>>]

\* LeanIMTStateZC::has_leaf
has_leaf(t, leaf) == \E i \in 1..Len(t.leaf_indices) : t.leaf_indices[i] = leaf

\* LeanIMTStateZC::index_of; "None" when the leaf is not found
index_of(t, leaf) ==
    IF has_leaf(t, leaf)
    THEN (CHOOSE i \in 1..Len(t.leaf_indices) :
              /\ t.leaf_indices[i] = leaf
              /\ \A j \in 1..(i - 1) : t.leaf_indices[j] # leaf) - 1
    ELSE "None"

\* LeanIMTStateZC::root
lean_root(t) == t.side_nodes[t.depth]

\* a variant of the loop that pairs a node without a right sibling with the
\* zero digest, as a fixed-depth tree does
RECURSIVE LeanLevels_padded(_, _, _, _, _)
LeanLevels_padded(side, level, tree_depth, index, node) ==
    IF level >= tree_depth THEN [side_nodes |-> side, node |-> node]
    ELSE IF (index \div Pow2(level)) % 2 = 1
         THEN LeanLevels_padded(side, level + 1, tree_depth, index,
                                hash_two(side[level], node))
         ELSE LeanLevels_padded([side EXCEPT ![level] = node], level + 1, tree_depth, index,
                                hash_two(node, Zero))

\* the loop of LeanIMTStateZC::insert, from `level` on
RECURSIVE LeanLevels(_, _, _, _, _)
LeanLevels(side, level, tree_depth, index, node) ==
    IF level >= tree_depth THEN [side_nodes |-> side, node |-> node]
    ELSE IF (index \div Pow2(level)) % 2 = 1
         THEN LeanLevels(side, level + 1, tree_depth, index, hash_two(side[level], node))
         ELSE LeanLevels([side EXCEPT ![level] = node], level + 1, tree_depth, index, node)

\* a variant of insert that grows the depth one insert early
\* ((1 << depth) <= index + 1)
lean_insert_eager_depth(t, leaf) ==
    IF has_leaf(t, leaf) THEN [result |-> "InvalidArgument", tree |-> t, node |-> Zero]
    ELSE LET index == t.size
             tree_depth == IF Pow2(t.depth) <= index + 1 THEN t.depth + 1 ELSE t.depth
             up == LeanLevels(t.side_nodes, 0, tree_depth, index, leaf)
             t1 == [t EXCEPT !.depth = tree_depth, !.side_nodes = up.side_nodes,
                             !.size = index + 1]
         IN  IF tree_depth > LEAN_MAX_TREE_DEPTH
             THEN [result |-> "Panic", tree |-> t1, node |-> Zero]
             ELSE [result |-> "Ok", node |-> up.node,
                   tree |-> [t1 EXCEPT !.side_nodes[tree_depth] = up.node,
                                       !.leaf_indices =
                                           IF Len(@) < LEAF_INDEX_CAPACITY
                                           THEN Append(@, leaf) ELSE @]]

\* a variant of insert that computes the new depth but does not store it
lean_insert_stale_depth(t, leaf) ==
    IF has_leaf(t, leaf) THEN [result |-> "InvalidArgument", tree |-> t, node |-> Zero]
    ELSE LET index == t.size
             tree_depth == IF Pow2(t.depth) < index + 1 THEN t.depth + 1 ELSE t.depth
             up == LeanLevels(t.side_nodes, 0, tree_depth, index, leaf)
             t1 == [t EXCEPT !.side_nodes = up.side_nodes, !.size = index + 1]
         IN  IF tree_depth > LEAN_MAX_TREE_DEPTH
             THEN [result |-> "Panic", tree |-> t1, node |-> Zero]
             ELSE [result |-> "Ok", node |-> up.node,
                   tree |-> [t1 EXCEPT !.side_nodes[tree_depth] = up.node,
                                       !.leaf_indices =
                                           IF Len(@) < LEAF_INDEX_CAPACITY
                                           THEN Append(@, leaf) ELSE @]]

\* LeanIMTStateZC::insert.  "Panic" is the index-out-of-bounds panic of
\* side_nodes[tree_depth]; the writes made before it are kept.
lean_insert(t, leaf) ==
    IF has_leaf(t, leaf) THEN [result |-> "InvalidArgument", tree |-> t, node |-> Zero]
    ELSE LET index == t.size
             tree_depth == IF Pow2(t.depth) < index + 1 THEN t.depth + 1 ELSE t.depth
             up == LeanLevels(t.side_nodes, 0, tree_depth, index, leaf)
             t1 == [t EXCEPT !.depth = tree_depth, !.side_nodes = up.side_nodes,
                             !.size = index + 1]
         IN  IF tree_depth > LEAN_MAX_TREE_DEPTH
             THEN [result |-> "Panic", tree |-> t1, node |-> Zero]
             ELSE [result |-> "Ok", node |-> up.node,
                   tree |-> [t1 EXCEPT !.side_nodes[tree_depth] = up.node,
                                       !.leaf_indices =
                                           IF Len(@) < LEAF_INDEX_CAPACITY
                                           THEN Append(@, leaf) ELSE @]]

\* PoolStateLeanIMT::initialize (the pubkey fields are never read and are left out)
lean_pool_initialize(scope) ==
    [is_initialized |-> 1, scope |-> scope, nonce |-> 0, is_dead |-> 0,
     roots |-> [i \in 0..(ROOT_HISTORY_SIZE - 1) |-> Zero],
     current_root_index |-> 0,
     state_tree |-> lean_initialize, asp_tree |-> lean_initialize]

\* PoolStateLeanIMT::insert_state_commitment
insert_state_commitment(lp, commitment) ==
    LET r == lean_insert(lp.state_tree, commitment)
        lp1 == [lp EXCEPT !.state_tree = r.tree]
    IN  IF r.result # "Ok" THEN [result |-> r.result, pool |-> lp1]
        ELSE [result |-> "Ok", pool |-> add_root(lp1, r.node)]

\* PoolStateLeanIMT::insert_asp_label
insert_asp_label(lp, label) ==
    LET r == lean_insert(lp.asp_tree, label)
    IN  [result |-> r.result, pool |-> [lp EXCEPT !.asp_tree = r.tree]]

----------------------------------------------------------------------------
(* The Vec-backed LeanIMT of src/src/crypto/merkle_tree.rs.  nodes[level]   *)
(* of the source, level counted from 0, is nodes[level + 1] here.           *)

\* LeanIMT::new; max_depth 0 stands for None
vec_new(max_depth) == [nodes |-> << <<>> >>, max_depth |-> max_depth]

\* LeanIMT::depth
vec_depth(t) == (Len(t.nodes) - 1) % 256

\* LeanIMT::size
vec_size(t) == Len(t.nodes[1])

\* LeanIMT::root
vec_root(t) ==
    IF Len(t.nodes) = 0 \/ Len(t.nodes[vec_depth(t) + 1]) = 0 THEN Zero
    ELSE t.nodes[vec_depth(t) + 1][1]

\* 64 - n.leading_zeros() - 1 for n >= 1: the position of the highest set bit
HighBit(n) == CHOOSE d \in 0..63 : Pow2(d) <= n /\ n < Pow2(d + 1)

\* `while v.len() <= i { v.push([0u8; 32]) }` followed by `v[i] = node`, i counted from 0
vec_put(v, i, node) ==
    [k \in 1..(IF Len(v) > i + 1 THEN Len(v) ELSE i + 1) |->
        IF k = i + 1 THEN node ELSE IF k <= Len(v) THEN v[k] ELSE Zero]

\* a variant of the insert loop that hashes a right node before its left sibling
RECURSIVE VecLevels_swapped(_, _, _, _, _)
VecLevels_swapped(nodes, level, depth, current_index, node) ==
    IF level > depth THEN nodes
    ELSE LET stored == [nodes EXCEPT ![level + 1] = vec_put(@, current_index, node)]
         IN  IF level < depth
             THEN VecLevels_swapped(stored, level + 1, depth, current_index \div 2,
                            IF current_index % 2 = 1
                            THEN hash_two(node, stored[level + 1][current_index])
                            ELSE node)
             ELSE VecLevels_swapped(stored, level + 1, depth, current_index, node)

\* the `for level in 0..=self.depth()` loop of LeanIMT::insert, from `level` on
RECURSIVE VecLevels(_, _, _, _, _)
VecLevels(nodes, level, depth, current_index, node) ==
    IF level > depth THEN nodes
    ELSE LET stored == [nodes EXCEPT ![level + 1] = vec_put(@, current_index, node)]
         IN  IF level < depth
             THEN VecLevels(stored, level + 1, depth, current_index \div 2,
                            IF current_index % 2 = 1
                            THEN hash_two(stored[level + 1][current_index], node)
                            ELSE node)
             ELSE VecLevels(stored, level + 1, depth, current_index, node)

\* u64::BITS: the width of the `1u64 << max_d` of LeanIMT::insert
U64_BITS == 64

\* `1u64 << max_d` as a build without overflow checks computes it: the shift
\* amount is taken modulo the width
wrapping_shl(max_d) == Pow2(max_d % U64_BITS)

\* LeanIMT::insert, in a build without overflow checks
vec_insert(t, leaf) ==
    LET index == vec_size(t) IN
    IF t.max_depth > 0 /\ index >= wrapping_shl(t.max_depth)
    THEN [result |-> "Tree is full", tree |-> t]
    ELSE LET required_depth == IF index = 0 THEN 0 ELSE HighBit(index + 1)
             levels == IF Len(t.nodes) <= required_depth + 1
                       THEN required_depth + 2 ELSE Len(t.nodes)
             grown == [k \in 1..levels |-> IF k <= Len(t.nodes) THEN t.nodes[k] ELSE <<>>]
             depth == (levels - 1) % 256
         IN  [result |-> "Ok", index |-> index,
              tree |-> [t EXCEPT !.nodes = VecLevels(grown, 0, depth, index, leaf)]]

\* LeanIMT::insert, in a build with overflow checks: `1u64 << max_d` panics
\* ("attempt to shift left with overflow") when max_d >= 64, before any write
vec_insert_overflow_checks(t, leaf) ==
    IF t.max_depth >= U64_BITS THEN [result |-> "Panic", tree |-> t]
    ELSE vec_insert(t, leaf)

----------------------------------------------------------------------------
(* Inputs *)

NoArgs == [none |-> TRUE]

\* a valid depth, and the two invalid ones next to the valid range
DepthInputs == {0, 2, MAX_TREE_DEPTH + 1}

InitArgs ==
    [is_signer : BOOLEAN, entrypoint_authority : {"A"},
     max_tree_depth : DepthInputs, asset_mint : Mints]

Values == {1000, U64_MAX}

\* the account in the signer position: its key and whether it signed
SignerAccts == {[key |-> k, is_signer |-> TRUE] : k \in Keys}
                   \cup {[key |-> "A", is_signer |-> FALSE]}

DepositArgs ==
    {[signer |-> s.key, is_signer |-> s.is_signer, depositor |-> d, value |-> v,
      precommitment_hash |-> Digest(7), depositor_account |-> acct] :
        s \in SignerAccts, d \in Keys, v \in Values, acct \in DepAccts \cup {BadAcct}}

Withdrawals == [processooor : Keys, data : {"data"}]

OtherKey(k) == CHOOSE o \in Keys : o # k

RootChoices == {Zero, pool.merkle_tree.root, Digest(9)}

WArgs(s, signed, w, ctx, sd, ad, sr, h, ok) ==
    [signer |-> s, is_signer |-> signed, withdrawal |-> w,
     proof |-> [public_signals |-> <<100, sr, sd, Digest(40), ad, ctx, Digest(31), h>>,
                proof_ok |-> ok]]

\* Withdraw calls.  The fields read by the first three guards (signer,
\* context, depths) are either all valid, combined with every choice of the
\* fields read later (root, nullifier hash, proof), or carry one or two
\* faults, combined with a later part that is all valid or all invalid.
\* Depth signal 257 has low byte 1; the pool's max_tree_depth is 2.
WithdrawArgs ==
    UNION {
        LET pr == w.processooor
            o == OtherKey(pr)
            good == compute_context(w, pool.scope)
            bad == compute_context([w EXCEPT !.processooor = o], pool.scope)
            late == {<<pool.merkle_tree.root, TRUE>>, <<Digest(9), FALSE>>}
            early == {<<o, TRUE, good, 2, 1>>, <<o, FALSE, bad, 3, 3>>,
                      <<pr, FALSE, good, 2, 1>>, <<pr, FALSE, bad, 3, 1>>,
                      <<pr, TRUE, bad, 2, 1>>, <<pr, TRUE, bad, 3, 1>>,
                      <<pr, TRUE, good, 3, 1>>, <<pr, TRUE, good, 2, 3>>}
        IN  {WArgs(e[1], e[2], w, e[3], e[4], e[5], l[1], Digest(71), l[2]) :
                e \in early, l \in late}
            \cup
            {WArgs(pr, TRUE, w, good, sd, 1, sr, h, ok) :
                sd \in {2, 257}, sr \in RootChoices, h \in NullHashes, ok \in BOOLEAN}
        : w \in Withdrawals}

RagequitArgs ==
    {[signer |-> s.key, is_signer |-> s.is_signer, depositor_account |-> acct,
      proof |-> [public_signals |-> <<100, lbl, Digest(50), h>>, proof_ok |-> ok]] :
        s \in SignerAccts, acct \in DepAccts \cup {BadAcct},
        lbl \in {depositors[d].label : d \in DepAccts} \cup {Digest(8)},
        h \in NullHashes, ok \in BOOLEAN}

WindDownArgs == {[signer |-> s.key, is_signer |-> s.is_signer] : s \in SignerAccts}

\* the record of the latest call: its result, whether it changed any account,
\* and its arguments when it succeeded or changed an account
Call(op, result, a, changed) ==
    [op |-> op, result |-> result, changed |-> changed,
     args |-> IF result = "Ok" \/ changed THEN a ELSE NoArgs]

----------------------------------------------------------------------------
(* Actions: one per handler *)

InitializeWith(a) ==
    LET r == initialize_pool(pool, a) IN
    /\ pool' = r.pool
    /\ last' = Call("initialize_pool", r.result, a, r.pool # pool)
    /\ inserted' = IF r.result = "Ok" THEN <<>> ELSE inserted
    /\ UNCHANGED <<imt, depositors, nullifiers, lean, spends>>

Initialize == \E a \in InitArgs : InitializeWith(a)

DepositWith(a) ==
    LET r == deposit(pool, depositors, a)
        grown == r.pool.merkle_tree.next_index # pool.merkle_tree.next_index
        label == compute_label(pool.scope, pool.nonce + 1)
        leaf == compute_commitment(a.value, label, a.precommitment_hash)
    IN  /\ pool' = r.pool
        /\ depositors' = r.depositors
        /\ last' = Call("deposit", r.result, a, r.pool # pool \/ r.depositors # depositors)
        /\ inserted' = IF grown
                       THEN Append(inserted, [by |-> "deposit", ok |-> r.result = "Ok",
                                              leaf |-> leaf, label |-> label,
                                              root |-> r.pool.merkle_tree.root])
                       ELSE inserted
        /\ UNCHANGED <<imt, nullifiers, lean, spends>>

Deposit ==
    /\ Len(inserted) < MaxLeaves
    /\ \E a \in DepositArgs : DepositWith(a)

WithdrawWith(a) ==
    LET r == withdraw(pool, nullifiers, a)
        ps == a.proof.public_signals
    IN  /\ pool' = r.pool
        /\ nullifiers' = r.nullifiers
        /\ last' = Call("withdraw", r.result, a, r.pool # pool \/ r.nullifiers # nullifiers)
        /\ inserted' = IF r.pool.merkle_tree.next_index # pool.merkle_tree.next_index
                       THEN Append(inserted, [by |-> "withdraw", ok |-> r.result = "Ok",
                                              leaf |-> new_commitment_hash(ps),
                                              label |-> Zero,
                                              root |-> r.pool.merkle_tree.root])
                       ELSE inserted
        /\ spends' = IF r.result = "Ok"
                     THEN Append(spends, [op |-> "withdraw", h |-> existing_nullifier_hash(ps)])
                     ELSE spends
        /\ UNCHANGED <<imt, depositors, lean>>

Withdraw ==
    /\ Len(inserted) < MaxLeaves
    /\ Len(spends) < MaxSpends
    /\ \E a \in WithdrawArgs : WithdrawWith(a)

RagequitWith(a) ==
    LET r == ragequit(pool, depositors, nullifiers, a) IN
    /\ pool' = r.pool
    /\ depositors' = r.depositors
    /\ nullifiers' = r.nullifiers
    /\ last' = Call("ragequit", r.result, a,
                    r.pool # pool \/ r.depositors # depositors \/ r.nullifiers # nullifiers)
    /\ spends' = IF r.result = "Ok"
                 THEN Append(spends, [op |-> "ragequit",
                                      h |-> rq_nullifier_hash(a.proof.public_signals)])
                 ELSE spends
    /\ UNCHANGED <<imt, lean, inserted>>

Ragequit ==
    /\ Len(spends) < MaxSpends
    /\ \E a \in RagequitArgs : RagequitWith(a)

WindDownWith(a) ==
    LET r == wind_down(pool, a) IN
    /\ pool' = r.pool
    /\ last' = Call("wind_down", r.result, a, r.pool # pool)
    /\ UNCHANGED <<imt, depositors, nullifiers, lean, inserted, spends>>

WindDown == \E a \in WindDownArgs : WindDownWith(a)

NoCall == [op |-> "none", result |-> "Ok", changed |-> FALSE, args |-> NoArgs]

Init ==
    /\ pool = ZeroPool
    /\ depositors = [d \in DepAccts |-> ZeroDepositor]
    /\ nullifiers = [h \in NullHashes |-> ZeroNullifier]
    /\ lean = lean_pool_initialize(generate_scope("mint"))
    /\ imt = vec_new(0)
    /\ last = NoCall
    /\ inserted = <<>>
    /\ spends = <<>>

Next == Initialize \/ Deposit \/ Withdraw \/ Ragequit \/ WindDown

Spec == Init /\ [][Next]_vars

----------------------------------------------------------------------------
(* SpecChain: one freshly initialized pool, a chain of deposits long enough *)
(* to wrap the root ring, and withdrawals against old and new roots.  The   *)
(* chain ends with its first successful withdrawal.                         *)

ChainDepths == {2, 7}

ChainInitArgs(d) ==
    [is_signer |-> TRUE, entrypoint_authority |-> "A", max_tree_depth |-> d,
     asset_mint |-> "mint"]

ChainDepositArgs ==
    [signer |-> "A", is_signer |-> TRUE, depositor |-> "A", value |-> 1000,
     precommitment_hash |-> Digest(7), depositor_account |-> "da1"]

\* the first root pushed, the oldest root still in a full ring, the root
\* pushed just before that one, the current root, zero and a foreign digest
ChainRootChoices ==
    {Zero, pool.merkle_tree.root, Digest(9)}
        \cup {inserted[i].root : i \in {1, Len(inserted) - ROOT_HISTORY_SIZE,
                                        Len(inserted) - ROOT_HISTORY_SIZE + 1}
                                       \cap (1..Len(inserted))}

ChainWithdrawArgs ==
    LET w == [processooor |-> "A", data |-> "data"] IN
    {WArgs("A", TRUE, w, compute_context(w, pool.scope), 2, 1, sr, Digest(71), ok) :
        sr \in ChainRootChoices, ok \in BOOLEAN}

InitChain ==
    /\ pool \in {initialize_pool(ZeroPool, ChainInitArgs(d)).pool : d \in ChainDepths}
    /\ depositors = [d \in DepAccts |-> ZeroDepositor]
    /\ nullifiers = [h \in NullHashes |-> ZeroNullifier]
    /\ lean = lean_pool_initialize(generate_scope("mint"))
    /\ imt = vec_new(0)
    /\ last = NoCall
    /\ inserted = <<>>
    /\ spends = <<>>

ChainDeposit ==
    /\ spends = <<>>
    /\ Len(inserted) < ROOT_HISTORY_SIZE + ChainExtra
    /\ DepositWith(ChainDepositArgs)

ChainWithdraw ==
    /\ spends = <<>>
    /\ \E a \in ChainWithdrawArgs : WithdrawWith(a)

NextChain == ChainDeposit \/ ChainWithdraw

SpecChain == InitChain /\ [][NextChain]_vars

\* a variant of the proof loop that records the zero digest for a missing
\* sibling, as the proof of a fixed-depth tree does
RECURSIVE ProofLevels_padded(_, _, _, _, _)
ProofLevels_padded(t, level, current_index, siblings, path) ==
    IF level >= vec_depth(t) THEN [siblings |-> siblings, path |-> path]
    ELSE LET is_right == current_index % 2 = 1
             sibling_index == IF is_right THEN current_index - 1 ELSE current_index + 1
         IN  ProofLevels_padded(t, level + 1, current_index \div 2,
                                Append(siblings,
                                       IF sibling_index < Len(t.nodes[level + 1])
                                       THEN t.nodes[level + 1][sibling_index + 1] ELSE Zero),
                                Append(path, is_right))

\* the `for level in 0..self.depth()` loop of LeanIMT::generate_proof, from
\* `level` on
RECURSIVE ProofLevels(_, _, _, _, _)
ProofLevels(t, level, current_index, siblings, path) ==
    IF level >= vec_depth(t) THEN [siblings |-> siblings, path |-> path]
    ELSE LET is_right == current_index % 2 = 1
             sibling_index == IF is_right THEN current_index - 1 ELSE current_index + 1
         IN  IF sibling_index < Len(t.nodes[level + 1])
             THEN ProofLevels(t, level + 1, current_index \div 2,
                              Append(siblings, t.nodes[level + 1][sibling_index + 1]),
                              Append(path, is_right))
             ELSE ProofLevels(t, level + 1, current_index \div 2, siblings, path)

\* LeanIMT::generate_proof
generate_proof(t, index) ==
    IF index >= vec_size(t) THEN [result |-> "Index out of bounds"]
    ELSE LET up == ProofLevels(t, 0, index, <<>>, <<>>)
         IN  [result |-> "Ok",
              proof |-> [root |-> vec_root(t), leaf |-> t.nodes[1][index + 1],
                         siblings |-> up.siblings, path |-> up.path]]

\* the loop of LeanIMT::verify_proof, from the k-th sibling on
RECURSIVE VerifyFold(_, _, _)
VerifyFold(proof, k, node) ==
    IF k > Len(proof.siblings) THEN node
    ELSE VerifyFold(proof, k + 1,
                    IF k <= Len(proof.path) /\ proof.path[k]
                    THEN hash_two(proof.siblings[k], node)
                    ELSE hash_two(node, proof.siblings[k]))

\* LeanIMT::verify_proof (self is not read)
verify_proof(t, proof) == VerifyFold(proof, 1, proof.leaf) = proof.root

\* LeanIMT::verify_inclusion; the parameters _leaf and _depth are not read
verify_inclusion(t, leaf, index, siblings, depth) ==
    LET g == generate_proof(t, index) IN
    IF g.result # "Ok" THEN FALSE
    ELSE IF Len(g.proof.siblings) # Len(siblings) THEN FALSE
    ELSE IF \E k \in 1..Len(siblings) : g.proof.siblings[k] # siblings[k] THEN FALSE
    ELSE verify_proof(t, g.proof)

\* LeanIMT::get_sibling_path
get_sibling_path(t, index) ==
    LET g == generate_proof(t, index) IN
    IF g.result = "Ok" THEN g.proof.siblings ELSE <<>>

----------------------------------------------------------------------------
(* SpecLean: the operations of PoolStateLeanIMT on its two LeanIMTStateZC *)

\* a fresh leaf (one of two while the tree is small) or a leaf already present
LeanLeafChoices(t, base) ==
    (IF t.size < LeanBranch
     THEN {Digest(base + 2 * t.size), Digest(base + 2 * t.size + 1)}
     ELSE {Digest(base + 2 * t.size)})
        \cup {t.leaf_indices[i] : i \in 1..Len(t.leaf_indices)}

\* the leaves put into the state tree so far, in order (from the log)
InsertedLeaves == [i \in 1..Len(inserted) |-> inserted[i].leaf]

\* one insert_state_commitment, of a fresh leaf or of any leaf inserted before
LeanInsertState ==
    /\ lean.state_tree.size <= Pow2(LEAN_MAX_TREE_DEPTH)
    /\ \E leaf \in LeanLeafChoices(lean.state_tree, 100)
                        \cup {InsertedLeaves[i] : i \in 1..Len(inserted)} :
        LET r == insert_state_commitment(lean, leaf) IN
        /\ lean' = r.pool
        /\ last' = [op |-> "insert_state_commitment", result |-> r.result,
                    changed |-> r.pool # lean, args |-> [leaf |-> leaf]]
        /\ inserted' = IF r.result = "Ok"
                       THEN Append(inserted, [by |-> "insert_state_commitment", ok |-> TRUE,
                                              leaf |-> leaf, label |-> Zero,
                                              root |-> lean_root(r.pool.state_tree)])
                       ELSE inserted
        /\ UNCHANGED <<imt, pool, depositors, nullifiers, spends>>

LeanInsertAsp ==
    /\ lean.asp_tree.size < MaxAspLabels
    /\ \E label \in {Digest(200 + lean.asp_tree.size)}
                        \cup {lean.asp_tree.leaf_indices[i] :
                                 i \in 1..Len(lean.asp_tree.leaf_indices)} :
        LET r == insert_asp_label(lean, label) IN
        /\ lean' = r.pool
        /\ last' = [op |-> "insert_asp_label", result |-> r.result,
                    changed |-> r.pool # lean, args |-> [leaf |-> label]]
        /\ UNCHANGED <<imt, pool, depositors, nullifiers, inserted, spends>>

NextLean == LeanInsertState \/ LeanInsertAsp

SpecLean == Init /\ [][NextLean]_vars

----------------------------------------------------------------------------
(* The instruction envelope: PrivacyPoolInstruction::try_from_slice and    *)
(* process_instruction.  Instruction data is a sequence of bytes (0..255). *)
(* Rust slices count from 0 and sequences from 1: data[offset..offset + 32] *)
(* is SubSeq(data, offset + 1, offset + 32).                                *)

\* n copies of the byte b
Rep(b, n) == [i \in 1..n |-> b]

\* The 32 bytes of a named key: every name stands for one 32-byte array.
KeyBytes(k) ==
    CASE k = "A" -> Rep(1, 32)
      [] k = "B" -> Rep(2, 32)
      [] k = "mint" -> Rep(3, 32)
      [] OTHER -> Rep(0, 32)

\* Pubkey::from([u8; 32]): the key that has these 32 bytes
PubkeyFrom(bytes) ==
    IF \E k \in Keys \cup Mints \cup {NoKey} : KeyBytes(k) = bytes
    THEN CHOOSE k \in Keys \cup Mints \cup {NoKey} : KeyBytes(k) = bytes
    ELSE <<"pubkey", bytes>>

\* u64::to_le_bytes for the values of the model: U64_MAX stands for u64::MAX
\* (eight bytes 255), every other value of the model is below 2^31
u64_to_le_bytes(v) ==
    IF v = U64_MAX THEN Rep(255, 8)
    ELSE <<v % 256, (v \div 256) % 256, (v \div 65536) % 256, (v \div 16777216) % 256,
           0, 0, 0, 0>>

\* u64::from_le_bytes, on the byte strings u64_to_le_bytes produces
u64_from_le_bytes(b) ==
    IF b = Rep(255, 8) THEN U64_MAX
    ELSE b[1] + 256 * b[2] + 65536 * b[3] + 16777216 * b[4]

\* the 32 bytes of a caller-chosen digest: Digest(n) is n in the first byte
DigestBytes(d) == IF d = Zero THEN Rep(0, 32) ELSE <<d[2]>> \o Rep(0, 31)

\* the digest held by 32 bytes
DigestFrom(bytes) ==
    IF bytes = Rep(0, 32) THEN Zero
    ELSE IF SubSeq(bytes, 2, 32) = Rep(0, 31) THEN Digest(bytes[1])
    ELSE <<"bytes", bytes>>

InvalidInstructionData == [variant |-> "Err", error |-> "InvalidInstructionData"]

\* instructions/types.rs: impl BorshDeserialize for PrivacyPoolInstruction
try_from_slice(data) ==
    IF Len(data) = 0 THEN InvalidInstructionData
    ELSE CASE data[1] = 0 ->
                IF Len(data) < 1 + 32 + 1 + 32 THEN InvalidInstructionData
                ELSE [variant |-> "InitializePool",
                      entrypoint_authority |-> PubkeyFrom(SubSeq(data, 2, 33)),
                      max_tree_depth |-> data[34],
                      asset_mint |-> PubkeyFrom(SubSeq(data, 35, 66))]
           [] data[1] = 1 ->
                IF Len(data) < 1 + 32 + 8 + 32 THEN InvalidInstructionData
                ELSE [variant |-> "Deposit",
                      depositor |-> PubkeyFrom(SubSeq(data, 2, 33)),
                      value |-> u64_from_le_bytes(SubSeq(data, 34, 41)),
                      precommitment_hash |-> DigestFrom(SubSeq(data, 42, 73))]
           [] data[1] = 4 -> [variant |-> "WindDown"]
           [] OTHER -> InvalidInstructionData

\* lib.rs: impl BorshDeserialize for PrivacyPoolInstruction (the crate root
\* carries a second implementation of the same trait for the same type)
lib_try_from_slice(data) ==
    IF Len(data) = 0 THEN InvalidInstructionData
    ELSE CASE data[1] = 0 ->
                IF Len(data) < 1 + 32 + 1 + 32 THEN InvalidInstructionData
                ELSE [variant |-> "InitializePool",
                      entrypoint_authority |-> PubkeyFrom(SubSeq(data, 2, 33)),
                      max_tree_depth |-> data[34],
                      asset_mint |-> PubkeyFrom(SubSeq(data, 35, 66))]
           [] OTHER -> InvalidInstructionData

(* Envelopes as a client builds them (section 6.1 of the specification;    *)
(* tests/unit_tests.rs builds the InitializePool envelope this way).        *)

InitializePoolEnvelope(entrypoint_authority, max_tree_depth, asset_mint) ==
    <<0>> \o KeyBytes(entrypoint_authority) \o <<max_tree_depth>> \o KeyBytes(asset_mint)

DepositEnvelope(depositor, value, precommitment_hash) ==
    <<1>> \o KeyBytes(depositor) \o u64_to_le_bytes(value) \o DigestBytes(precommitment_hash)

\* proof: A(64), B(128), C(64), then the public signals, 32 bytes each
ProofBytes(signals) ==
    LET RECURSIVE Cat(_)
        Cat(i) == IF i > Len(signals) THEN <<>> ELSE signals[i] \o Cat(i + 1)
    IN  Rep(0, 64) \o Rep(0, 128) \o Rep(0, 64) \o Cat(1)

\* withdrawal: processor(32), dataLen(4, little-endian), data(dataLen)
WithdrawEnvelope(processooor, data, signals) ==
    <<2>> \o KeyBytes(processooor) \o <<Len(data) % 256, Len(data) \div 256, 0, 0>> \o data
          \o ProofBytes(signals)

RagequitEnvelope(signals) == <<3>> \o ProofBytes(signals)

WindDownEnvelope == <<4>>

InitializePoolEnvelopes ==
    {InitializePoolEnvelope("A", d, m) : d \in DepthInputs, m \in Mints}

DepositEnvelopes ==
    {DepositEnvelope(k, v, Digest(7)) : k \in Keys, v \in Values}

\* eight public signals: withdrawn value, state root, state tree depth, ASP
\* root, ASP tree depth, context, new commitment hash, existing nullifier hash
WithdrawEnvelopes ==
    {WithdrawEnvelope(k, <<100, 97, 116, 97>>,
                      <<DigestBytes(Digest(100)), DigestBytes(Digest(9)), DigestBytes(Digest(2)),
                        DigestBytes(Digest(40)), DigestBytes(Digest(1)), DigestBytes(Digest(41)),
                        DigestBytes(Digest(31)), DigestBytes(Digest(71))>>) : k \in Keys}

\* four public signals: value, label, commitment hash, nullifier hash
RagequitEnvelopes ==
    {RagequitEnvelope(<<DigestBytes(Digest(100)), DigestBytes(Digest(8)),
                        DigestBytes(Digest(50)), DigestBytes(h)>>) : h \in NullHashes}

WellFormedEnvelopes ==
    InitializePoolEnvelopes \cup DepositEnvelopes \cup WithdrawEnvelopes
        \cup RagequitEnvelopes \cup {WindDownEnvelope}

\* the well-formed envelopes, each of them cut by one byte and extended by
\* one byte, the empty string and discriminants that name no transition
InstructionData ==
    WellFormedEnvelopes
        \cup {SubSeq(d, 1, Len(d) - 1) : d \in WellFormedEnvelopes}
        \cup {Append(d, 0) : d \in WellFormedEnvelopes}
        \cup {<<5>>, <<99>>, <<255>>}

\* lib.rs process_instruction: decode, then hand the decoded transition and
\* the accounts to its handler.  s is the account in the signer position and
\* acct the depositor account.  The envelope is kept with the arguments.
ProcessInstruction ==
    \E data \in InstructionData, s \in SignerAccts, acct \in DepAccts \cup {BadAcct} :
        LET instruction == try_from_slice(data) IN
        CASE instruction.variant = "Err" ->
                /\ last' = [op |-> "process_instruction", result |-> instruction.error,
                            changed |-> FALSE, args |-> [data |-> data]]
                /\ UNCHANGED <<imt, pool, depositors, nullifiers, lean, inserted, spends>>
          [] instruction.variant = "InitializePool" ->
                InitializeWith([is_signer |-> s.is_signer,
                                entrypoint_authority |-> instruction.entrypoint_authority,
                                max_tree_depth |-> instruction.max_tree_depth,
                                asset_mint |-> instruction.asset_mint,
                                data |-> data])
          [] instruction.variant = "Deposit" ->
                /\ Len(inserted) < MaxLeaves
                /\ DepositWith([signer |-> s.key, is_signer |-> s.is_signer,
                                depositor |-> instruction.depositor,
                                value |-> instruction.value,
                                precommitment_hash |-> instruction.precommitment_hash,
                                depositor_account |-> acct, data |-> data])
          [] instruction.variant = "Withdraw" ->
                /\ Len(inserted) < MaxLeaves
                /\ Len(spends) < MaxSpends
                /\ WithdrawWith([signer |-> s.key, is_signer |-> s.is_signer,
                                 withdrawal |-> instruction.withdrawal_data,
                                 proof |-> instruction.proof_data, data |-> data])
          [] instruction.variant = "Ragequit" ->
                /\ Len(spends) < MaxSpends
                /\ RagequitWith([signer |-> s.key, is_signer |-> s.is_signer,
                                 depositor_account |-> acct,
                                 proof |-> instruction.proof_data, data |-> data])
          [] instruction.variant = "WindDown" ->
                WindDownWith([signer |-> s.key, is_signer |-> s.is_signer, data |-> data])

NextEntry == ProcessInstruction

\* SpecEntry: every transition enters through process_instruction
SpecEntry == Init /\ [][NextEntry]_vars

----------------------------------------------------------------------------
(* Field arithmetic of the label and the context.  Here a digest is the     *)
(* little-endian integer its 32 bytes hold.  Keccak-256 is not computable   *)
(* in the model: its output for a given input is any digest.  Digests and   *)
(* the field modulus are scaled: DIGEST_SPACE stands for 2^256 and          *)
(* SNARK_SCALAR_FIELD for the BN254 scalar modulus p, with p / 2^256 about  *)
(* 0.19 as for the real values.                                             *)

DIGEST_SPACE == 256

SNARK_SCALAR_FIELD == 47

\* poseidon.rs bytes_to_fr: Fr::from_le_bytes_mod_order
bytes_to_fr(bytes) == bytes % SNARK_SCALAR_FIELD

\* poseidon.rs fr_to_bytes: the little-endian bytes of the canonical representative
fr_to_bytes(fr) == fr

\* crypto/poseidon.rs compute_label, from the Keccak output on: `hash`
crypto_compute_label(hash) == hash

\* crypto/poseidon.rs compute_context, from the Keccak output on: `hash`
crypto_compute_context(hash) == hash

\* poseidon.rs compute_label, from the Keccak output on
legacy_compute_label(hash) == fr_to_bytes(bytes_to_fr(hash))

\* poseidon.rs compute_context, from the Keccak output on
legacy_compute_context(hash) == fr_to_bytes(bytes_to_fr(hash))

\* compute_label(scope, nonce) in both modules, hash being the Keccak output
\* for (scope, nonce)
ComputeLabel ==
    \E hash \in 0..(DIGEST_SPACE - 1) :
        /\ last' = [op |-> "compute_label", result |-> "Ok", changed |-> FALSE,
                    args |-> [hash |-> hash, crypto |-> crypto_compute_label(hash),
                              legacy |-> legacy_compute_label(hash)]]
        /\ UNCHANGED <<imt, pool, depositors, nullifiers, lean, inserted, spends>>

\* compute_context(withdrawal, scope) in both modules, hash being the Keccak
\* output for (withdrawal, scope)
ComputeContext ==
    \E hash \in 0..(DIGEST_SPACE - 1) :
        /\ last' = [op |-> "compute_context", result |-> "Ok", changed |-> FALSE,
                    args |-> [hash |-> hash, crypto |-> crypto_compute_context(hash),
                              legacy |-> legacy_compute_context(hash)]]
        /\ UNCHANGED <<imt, pool, depositors, nullifiers, lean, inserted, spends>>

NextField == ComputeLabel \/ ComputeContext

SpecField == Init /\ [][NextField]_vars

----------------------------------------------------------------------------
(* The context of a withdrawal at the level of bytes: what compute_context  *)
(* feeds to Keccak.  keccak::Hasher::hash appends its argument to the       *)
(* hashed input, so the digest is Keccak-256 of the concatenation.          *)

\* b"IPrivacyPool.Withdrawal"
ContextTag ==
    <<73, 80, 114, 105, 118, 97, 99, 121, 80, 111, 111, 108, 46,
      87, 105, 116, 104, 100, 114, 97, 119, 97, 108>>

\* Keccak-256 of a byte string, collision free
keccak(bytes) == <<"keccak256", bytes>>

\* a variant of context_input that leaves the withdrawal's data out
context_input_no_data(withdrawal, scope) ==
    ContextTag \o KeyBytes(withdrawal.processooor) \o scope

\* crypto/poseidon.rs compute_context: the bytes hashed, in order
context_input(withdrawal, scope) ==
    ContextTag \o KeyBytes(withdrawal.processooor) \o withdrawal.data \o scope

\* crypto/poseidon.rs compute_context on a withdrawal whose data is a byte
\* string and a scope given by its 32 bytes
compute_context_bytes(withdrawal, scope) ==
    crypto_compute_context(keccak(context_input(withdrawal, scope)))

\* withdrawal data of up to MaxDataLen bytes
MaxDataLen == 2

DataInputs == UNION {[1..n -> {0, 1}] : n \in 0..MaxDataLen}

ScopeInputs == {Rep(42, 32), Rep(43, 32), <<1>> \o Rep(42, 31)}

ContextInputs ==
    [withdrawal : [processooor : Keys, data : DataInputs], scope : ScopeInputs]

\* one call of compute_context; the call before it is kept beside it
ContextCall ==
    \E in \in ContextInputs :
        LET this == [withdrawal |-> in.withdrawal, scope |-> in.scope,
                     context |-> compute_context_bytes(in.withdrawal, in.scope)]
        IN  /\ last' = [op |-> "compute_context_bytes", result |-> "Ok", changed |-> FALSE,
                        args |-> [this |-> this,
                                  before |-> IF last.op = "compute_context_bytes"
                                             THEN last.args.this ELSE this]]
            /\ UNCHANGED <<imt, pool, depositors, nullifiers, lean, inserted, spends>>

NextContext == ContextCall

SpecContext == Init /\ [][NextContext]_vars

----------------------------------------------------------------------------
(* SpecVec: the Vec-backed LeanIMT, created with or without a maximum depth *)
(* and filled by inserts.                                                   *)

\* LeanIMT::new arguments: no maximum depth, two maximum depths below the
\* width of u64, and the least maximum depth that is not
VecDepths == {0, VEC_MAX_DEPTH - 1, VEC_MAX_DEPTH, U64_BITS}

InitVec ==
    /\ pool = ZeroPool
    /\ depositors = [d \in DepAccts |-> ZeroDepositor]
    /\ nullifiers = [h \in NullHashes |-> ZeroNullifier]
    /\ lean = lean_pool_initialize(generate_scope("mint"))
    /\ imt \in {vec_new(d) : d \in VecDepths}
    /\ last = NoCall
    /\ inserted = <<>>
    /\ spends = <<>>

\* one insert of a fresh leaf (one of two while the tree is small), in a
\* build with or without overflow checks
VecInsert ==
    /\ vec_size(imt) <= Pow2(VEC_MAX_DEPTH)
    /\ \E leaf \in IF vec_size(imt) < LeanBranch
                   THEN {Digest(300 + 2 * vec_size(imt)), Digest(301 + 2 * vec_size(imt))}
                   ELSE {Digest(300 + 2 * vec_size(imt))} :
       \E r \in {vec_insert(imt, leaf), vec_insert_overflow_checks(imt, leaf)} :
        /\ imt' = r.tree
        /\ last' = [op |-> "vec_insert", result |-> r.result, changed |-> r.tree # imt,
                    args |-> [leaf |-> leaf,
                              index |-> IF r.result = "Ok" THEN r.index ELSE vec_size(imt)]]
        /\ UNCHANGED <<pool, depositors, nullifiers, lean, inserted, spends>>

\* a leaf that no insert of SpecVec supplies
ForeignLeaf == Digest(399)

\* one inclusion check: generate_proof and verify_proof for an index (the
\* indices in use and the first one beyond them), and verify_inclusion for
\* the sibling path of that index with the stored leaf or with another leaf
VecVerify ==
    /\ \E index \in 0..vec_size(imt) :
       \E leaf \in {ForeignLeaf} \cup
                    (IF index < vec_size(imt) THEN {imt.nodes[1][index + 1]} ELSE {}) :
        LET g == generate_proof(imt, index)
            siblings == get_sibling_path(imt, index)
        IN  last' = [op |-> "verify_inclusion", result |-> g.result, changed |-> FALSE,
                     args |-> [index |-> index, leaf |-> leaf, siblings |-> siblings,
                               proof_ok |-> IF g.result = "Ok"
                                            THEN verify_proof(imt, g.proof) ELSE FALSE,
                               included |-> verify_inclusion(imt, leaf, index, siblings,
                                                             vec_depth(imt))]]
    /\ UNCHANGED <<pool, depositors, nullifiers, lean, imt, inserted, spends>>

NextVec == VecInsert \/ VecVerify

SpecVec == InitVec /\ [][NextVec]_vars

----------------------------------------------------------------------------
(* The persisted form of the heap-allocated pool record (src/src/state.rs): *)
(* PrivacyPoolState with its MerkleTreeState, whose filled_subtrees and     *)
(* zeros are Vecs of depth and depth + 1 digests.  Account data is a        *)
(* sequence of byte cells: <<"u8", n>> is the byte n, <<"h", d, k>> is the  *)
(* k-th byte of the digest d (a digest other than zero is a term, and its   *)
(* 32 bytes are named after it).                                            *)

Cells(bytes) == [i \in 1..Len(bytes) |-> <<"u8", bytes[i]>>]

Numbers(cells) == [i \in 1..Len(cells) |-> cells[i][2]]

\* the 32 bytes of a digest
DigestCells(d) ==
    IF d = Zero THEN Cells(Rep(0, 32)) ELSE [k \in 1..32 |-> <<"h", d, k>>]

\* the digest held by 32 bytes
DigestOfCells(c) ==
    IF c = Cells(Rep(0, 32)) THEN Zero
    ELSE IF c[1][1] = "h" /\ c = DigestCells(c[1][2]) THEN c[1][2]
    ELSE <<"bytes", c>>

\* the bytes of digests[lo], ..., digests[hi] in order (a function over integers)
DigestRun(digests, lo, hi) ==
    [i \in 1..(32 * (hi - lo + 1)) |->
        DigestCells(digests[lo + ((i - 1) \div 32)])[((i - 1) % 32) + 1]]

\* MerkleTreeState::LEN
MerkleTreeState_LEN == 32 + 1 + 8 + (32 * MAX_TREE_DEPTH) + (32 * MAX_TREE_DEPTH)

\* PrivacyPoolState::LEN
PrivacyPoolState_LEN ==
    1 + 32 + 32 + 32 + 8 + 1 + 1 + 8 + (32 * ROOT_HISTORY_SIZE) + MerkleTreeState_LEN

\* MerkleTreeState::compute_zeros: zeros[0] is the zero digest and zeros[i] is
\* hash_two(zeros[i-1], zeros[i-1]); written out, that term doubles in size
\* with every level, so the i-th zero hash is named instead
compute_zeros(max_depth) ==
    [i \in 0..max_depth |-> IF i = 0 THEN Zero ELSE <<"zeros", i>>]

\* MerkleTreeState::new; the two Vecs are functions over 0..len-1
merkle_tree_state_new(max_depth) ==
    [root |-> compute_zeros(max_depth)[max_depth], depth |-> max_depth, next_index |-> 0,
     filled_subtrees |-> [i \in 0..(max_depth - 1) |-> Zero],
     zeros |-> compute_zeros(max_depth)]

\* PrivacyPoolState::new
pool_state_new(entrypoint_authority, asset_mint, max_tree_depth) ==
    [is_initialized |-> TRUE, entrypoint_authority |-> entrypoint_authority,
     asset_mint |-> asset_mint, scope |-> generate_scope(asset_mint), nonce |-> 0,
     dead |-> FALSE, max_tree_depth |-> max_tree_depth, current_root_index |-> 0,
     roots |-> [i \in 0..(ROOT_HISTORY_SIZE - 1) |-> Zero],
     merkle_tree |-> merkle_tree_state_new(max_tree_depth)]

\* BorshSerialize for MerkleTreeState
merkle_tree_try_to_vec(mt) ==
    DigestCells(mt.root) \o <<<<"u8", mt.depth>>>> \o Cells(u64_to_le_bytes(mt.next_index))
        \o DigestRun(mt.filled_subtrees, 0, mt.depth - 1)
        \o DigestRun(mt.zeros, 0, mt.depth)

\* BorshSerialize for PrivacyPoolState
pool_try_to_vec(p) ==
    <<<<"u8", IF p.is_initialized THEN 1 ELSE 0>>>>
        \o Cells(KeyBytes(p.entrypoint_authority))
        \o Cells(KeyBytes(p.asset_mint))
        \o DigestCells(p.scope)
        \o Cells(u64_to_le_bytes(p.nonce))
        \o <<<<"u8", IF p.dead THEN 1 ELSE 0>>>>
        \o <<<<"u8", p.max_tree_depth>>>>
        \o Cells(u64_to_le_bytes(p.current_root_index))
        \o DigestRun(p.roots, 0, ROOT_HISTORY_SIZE - 1)
        \o merkle_tree_try_to_vec(p.merkle_tree)

\* BorshDeserialize for MerkleTreeState; it has no length check, and a slice
\* that runs past the end of the data panics
merkle_tree_try_from_slice(data) ==
    IF Len(data) < 32 + 1 + 8 THEN [result |-> "Panic"]
    ELSE LET depth == data[33][2]
             at(offset) == DigestOfCells(SubSeq(data, offset + 1, offset + 32))
         IN  IF Len(data) < 32 + 1 + 8 + 32 * depth + 32 * (depth + 1)
             THEN [result |-> "Panic"]
             ELSE [result |-> "Ok",
                   state |->
                       [root |-> at(0), depth |-> depth,
                        next_index |-> u64_from_le_bytes(Numbers(SubSeq(data, 34, 41))),
                        filled_subtrees |-> [i \in 0..(depth - 1) |-> at(41 + 32 * i)],
                        zeros |-> [i \in 0..depth |-> at(41 + 32 * depth + 32 * i)]]]

\* BorshDeserialize for PrivacyPoolState
pool_try_from_slice(data) ==
    IF Len(data) < PrivacyPoolState_LEN THEN [result |-> "InvalidAccountData"]
    ELSE LET mt == merkle_tree_try_from_slice(
                       SubSeq(data, 116 + 32 * ROOT_HISTORY_SIZE, Len(data)))
         IN  IF mt.result # "Ok" THEN [result |-> mt.result]
             ELSE [result |-> "Ok",
                   state |->
                       [is_initialized |-> data[1][2] # 0,
                        entrypoint_authority |-> PubkeyFrom(Numbers(SubSeq(data, 2, 33))),
                        asset_mint |-> PubkeyFrom(Numbers(SubSeq(data, 34, 65))),
                        scope |-> DigestOfCells(SubSeq(data, 66, 97)),
                        nonce |-> u64_from_le_bytes(Numbers(SubSeq(data, 98, 105))),
                        dead |-> data[106][2] # 0,
                        max_tree_depth |-> data[107][2],
                        current_root_index |->
                            u64_from_le_bytes(Numbers(SubSeq(data, 108, 115))),
                        roots |-> [i \in 0..(ROOT_HISTORY_SIZE - 1) |->
                                      DigestOfCells(SubSeq(data, 116 + 32 * i, 147 + 32 * i))],
                        merkle_tree |-> mt.state]]

----------------------------------------------------------------------------
(* SpecRecord: pool records made by PrivacyPoolState::new, changed by the   *)
(* in-memory steps of a deposit, and written to bytes and read back.        *)

\* max_tree_depth of the records: the least, the one the tests use, and the
\* two greatest
RecordDepths == {1, 20, MAX_TREE_DEPTH - 1, MAX_TREE_DEPTH}

InitRecord ==
    /\ pool \in {pool_state_new(k, m, d) : k \in Keys, m \in Mints, d \in RecordDepths}
    /\ depositors = [d \in DepAccts |-> ZeroDepositor]
    /\ nullifiers = [h \in NullHashes |-> ZeroNullifier]
    /\ lean = lean_pool_initialize(generate_scope("mint"))
    /\ imt = vec_new(0)
    /\ last = NoCall
    /\ inserted = <<>>
    /\ spends = <<>>

\* the steps of instructions.rs deposit on the record in memory
RecordDeposit ==
    /\ pool.nonce < MaxLeaves
    /\ \E value \in {1, 2} :
        LET p1 == increment_nonce(pool)
            label == compute_label(p1.scope, p1.nonce)
            commitment == compute_commitment(value, label, Digest(7))
            p2 == [p1 EXCEPT !.merkle_tree = merkle_tree_insert(@, commitment)]
        IN  /\ pool' = add_root(p2, p2.merkle_tree.root)
            /\ last' = [op |-> "record_deposit", result |-> "Ok", changed |-> TRUE,
                        args |-> [value |-> value]]
    /\ UNCHANGED <<imt, depositors, nullifiers, lean, inserted, spends>>

\* try_to_vec followed by try_from_slice, as ctx.set_pool_state and
\* ctx.get_pool_state do
RecordRoundTrip ==
    /\ LET data == pool_try_to_vec(pool)
           r == pool_try_from_slice(data)
       IN  last' = [op |-> "round_trip", result |-> r.result, changed |-> FALSE,
                    args |-> [len |-> Len(data),
                              state |-> IF r.result = "Ok" THEN r.state ELSE NoArgs]]
    /\ UNCHANGED <<pool, imt, depositors, nullifiers, lean, inserted, spends>>

NextRecord == RecordDeposit \/ RecordRoundTrip

SpecRecord == InitRecord /\ [][NextRecord]_vars

----------------------------------------------------------------------------
(* SpecBoth: a LeanIMTStateZC and a Vec-backed LeanIMT that are given the   *)
(* same distinct leaves, one insert into each at a time.                    *)

\* LeanIMT::new arguments that leave room for 2^LEAN_MAX_TREE_DEPTH leaves
BothDepths == {0, LEAN_MAX_TREE_DEPTH, LEAN_MAX_TREE_DEPTH + 1}

InitBoth ==
    /\ pool = ZeroPool
    /\ depositors = [d \in DepAccts |-> ZeroDepositor]
    /\ nullifiers = [h \in NullHashes |-> ZeroNullifier]
    /\ lean = lean_pool_initialize(generate_scope("mint"))
    /\ imt \in {vec_new(d) : d \in BothDepths}
    /\ last = NoCall
    /\ inserted = <<>>
    /\ spends = <<>>

\* one leaf that neither tree holds (one of two while the trees are small, or
\* the zero digest), inserted into both trees, up to the number of leaves the
\* side nodes of LeanIMTStateZC have room for
BothInsert ==
    /\ lean.state_tree.size < Pow2(LEAN_MAX_TREE_DEPTH)
    /\ \E leaf \in {x \in {Zero, Digest(400 + 2 * vec_size(imt))}
                            \cup (IF vec_size(imt) < LeanBranch
                                  THEN {Digest(401 + 2 * vec_size(imt))} ELSE {}) :
                       \A i \in 1..Len(inserted) : inserted[i].leaf # x} :
        LET r == lean_insert(lean.state_tree, leaf)
            v == vec_insert(imt, leaf)
        IN  /\ lean' = [lean EXCEPT !.state_tree = r.tree]
            /\ imt' = v.tree
            /\ last' = [op |-> "both_insert", result |-> r.result, changed |-> TRUE,
                        args |-> [leaf |-> leaf, node |-> r.node, vec_result |-> v.result]]
            /\ inserted' = Append(inserted, [by |-> "both_insert", ok |-> r.result = "Ok",
                                             leaf |-> leaf, label |-> Zero,
                                             root |-> r.node])
    /\ UNCHANGED <<pool, depositors, nullifiers, spends>>

NextBoth == BothInsert

SpecBoth == InitBoth /\ [][NextBoth]_vars

----------------------------------------------------------------------------
(* Properties *)

\* the LeanIMTStateZC obtained by inserting the leaves in order
RECURSIVE LeanOver(_)
LeanOver(leaves) ==
    IF leaves = <<>> THEN lean_initialize
    ELSE lean_insert(LeanOver(SubSeq(leaves, 1, Len(leaves) - 1)), leaves[Len(leaves)]).tree

\* the tree insertions since initialization are exactly k successful deposits, k >= 1
OnlyDeposits ==
    /\ is_initialized(pool)
    /\ inserted # <<>>
    /\ \A i \in 1..Len(inserted) : inserted[i].by = "deposit" /\ inserted[i].ok

\* the labels of the successful deposits since initialization, in order
DepositLabels ==
    LET ok == SelectSeq(inserted, LAMBDA e : e.by = "deposit" /\ e.ok)
    IN  [i \in 1..Len(ok) |-> ok[i].label]

C2_RagequitNullifierSpent ==
    \A i, j \in 1..Len(spends) :
        (i < j /\ (spends[i].op = "ragequit" \/ spends[j].op = "ragequit"))
            => spends[i].h # spends[j].h

\* C3: a call that returns an error leaves the pool record, the depositor
\* records and the nullifier records as they were before the call
C3_FailureLeavesStateUnchanged ==
    last.result # "Ok" => ~last.changed

\* C4: after k >= 1 successful Deposits on a freshly initialized pool the
\* state tree root is the LeanIMT root over the k commitments in deposit
\* order, the nonce is k and the root is known to the root history (for
\* k = 1 the root is the commitment itself)
C4_DepositRootIsLeanRoot ==
    OnlyDeposits =>
        /\ pool.nonce = Len(inserted)
        /\ pool.merkle_tree.root =
               lean_root(LeanOver([i \in 1..Len(inserted) |-> inserted[i].leaf]))
        /\ is_known_root(pool, pool.merkle_tree.root)

\* C5: on a pool initialized with maxTreeDepth = d no Deposit succeeds once
\* the state tree holds 2^d leaves: the state tree never holds more
C5_DepositTreeFull ==
    is_initialized(pool) => pool.merkle_tree.next_index <= Pow2(pool.max_tree_depth)

\* C6: LeanIMTStateZC::insert at size = 2^MAX_DEPTH returns an error and
\* changes nothing: the depth never exceeds MAX_DEPTH, the size never
\* exceeds 2^MAX_DEPTH, and the insert never runs into the write of a side
\* node beyond index MAX_DEPTH
C6_LeanInsertTreeFull ==
    /\ lean.state_tree.depth <= LEAN_MAX_TREE_DEPTH
    /\ lean.state_tree.size <= Pow2(LEAN_MAX_TREE_DEPTH)
    /\ last.result # "Panic"

\* C7: every successful Deposit appends its label to the ASP tree: the ASP
\* tree holds exactly the labels of the successful deposits, in order
C7_DepositAppendsLabel ==
    is_initialized(pool) =>
        /\ lean.asp_tree.size = Len(DepositLabels)
        /\ lean_root(lean.asp_tree) = lean_root(LeanOver(DepositLabels))

RECURSIVE PaddedNode(_, _, _)
PaddedNode(leaves, level, k) ==
    IF k * Pow2(level) >= Len(leaves) THEN Zero
    ELSE IF level = 0 THEN leaves[k + 1]
    ELSE hash_two(PaddedNode(leaves, level - 1, 2 * k),
                  PaddedNode(leaves, level - 1, 2 * k + 1))

C12_NonceMonotone ==
    /\ (last.op = "initialize_pool" /\ last.result = "Ok") => pool.nonce = 0
    /\ is_initialized(pool) => \A a \in DepositArgs :
           LET r == deposit(pool, depositors, a) IN
           IF r.result = "Ok"
           THEN /\ r.pool.nonce = pool.nonce + 1
                /\ r.depositors[a.depositor_account].label =
                       compute_label(pool.scope, pool.nonce + 1)
           ELSE r.pool.nonce = pool.nonce
    /\ \A a \in WithdrawArgs : withdraw(pool, nullifiers, a).pool.nonce = pool.nonce
    /\ \A a \in WindDownArgs : wind_down(pool, a).pool.nonce = pool.nonce

C20_RagequitOriginalDepositor ==
    \A a \in RagequitArgs :
        LET r == ragequit(pool, depositors, nullifiers, a)
            held == a.depositor_account \in DepAccts
            rec == depositors[a.depositor_account]
            label == a.proof.public_signals[2]
        IN  /\ r.result = "Ok" =>
                   held /\ a.is_signer /\ rec.depositor = a.signer /\ rec.label = label
            /\ (held /\ a.is_signer /\ rec.depositor # a.signer) =>
                   r.result = "NotOriginalDepositor" /\ r.nullifiers = nullifiers
            /\ (held /\ a.is_signer /\ rec.depositor = a.signer /\ rec.label = label
                     /\ a.proof.proof_ok) => r.result = "Ok"

C20_Witness ==
    /\ last.op = "ragequit"
    /\ last.result = "NotOriginalDepositor"
    /\ depositors["da1"].depositor = "A"
    /\ \E a \in RagequitArgs :
           a.signer = "A" /\ ragequit(pool, depositors, nullifiers, a).result = "Ok"

\* C21: a successful Ragequit changes nothing of the pool record (nonce, dead,
\* state tree, root history and every other field are as before), nothing of
\* the depositor records and nothing of the stand-alone trees; its only
\* effect is that the nullifier record addressed by the proof's nullifier
\* hash is marked spent with that hash, every other nullifier record being
\* as before
C21_RagequitFrame ==
    [][(last'.op = "ragequit" /\ last'.result = "Ok") =>
          LET h == rq_nullifier_hash(last'.args.proof.public_signals) IN
          /\ pool' = pool
          /\ depositors' = depositors
          /\ lean' = lean
          /\ inserted' = inserted
          /\ nullifiers' = [nullifiers EXCEPT ![h] = set_spent(h)]]_vars

C21_Witness ==
    /\ last.op = "ragequit"
    /\ last.result = "Ok"
    /\ pool.merkle_tree.next_index > 0
    /\ pool.nonce > 0
    /\ nullifiers[rq_nullifier_hash(last.args.proof.public_signals)].is_spent = 1

\* the length section 6.1 of the specification gives the envelope of each
\* discriminant: the discriminant byte and a body of exactly the listed size
ExactEnvelope(data) ==
    /\ Len(data) >= 1
    /\ CASE data[1] = 0 -> Len(data) = 1 + 32 + 1 + 32
         [] data[1] = 1 -> Len(data) = 1 + 32 + 8 + 32
         [] data[1] = 2 -> /\ Len(data) >= 1 + 32 + 4
                           /\ data[36] = 0 /\ data[37] = 0
                           /\ Len(data) = 1 + 32 + 4 + (data[34] + 256 * data[35])
                                               + 64 + 128 + 64 + 8 * 32
         [] data[1] = 3 -> Len(data) = 1 + 64 + 128 + 64 + 4 * 32
         [] data[1] = 4 -> Len(data) = 1
         [] OTHER -> FALSE

\* C22: process_instruction hands a byte string to a handler only if its
\* discriminant is one of 0..4 and its body has exactly the length given for
\* that discriminant (no truncated body, no trailing byte); every other byte
\* string is answered with InvalidInstructionData
C22_DecodingExact ==
    /\ ("data" \in DOMAIN last.args /\ last.op # "process_instruction")
           => ExactEnvelope(last.args.data)
    /\ last.op = "process_instruction" => last.result = "InvalidInstructionData"

\* C23: a well-formed envelope with discriminant 2 or 3 is not rejected by
\* the decoder: it reaches the Withdraw or the Ragequit handler
C23_AllTransitionsDecoded ==
    last.op = "process_instruction" =>
        ~(ExactEnvelope(last.args.data) /\ last.args.data[1] \in {2, 3})

\* C24: the outputs of compute_label and compute_context are canonical field
\* elements, the Keccak output reduced modulo p and so strictly below p, and
\* the compute_label (compute_context) of crate::crypto::poseidon and the one
\* of crate::poseidon return the same value for the same input
C24_FieldReduction ==
    last.op \in {"compute_label", "compute_context"} =>
        /\ last.args.crypto < SNARK_SCALAR_FIELD
        /\ last.args.crypto = last.args.hash % SNARK_SCALAR_FIELD
        /\ last.args.legacy < SNARK_SCALAR_FIELD
        /\ last.args.legacy = last.args.hash % SNARK_SCALAR_FIELD
        /\ last.args.crypto = last.args.legacy

\* C25: on an initialized pool that is not dead and whose tree is not full,
\* a Deposit signed by its depositor (with a depositor record account to
\* write) succeeds whatever its value is, the largest 64-bit value included
C25_DepositAnyValue ==
    \A a \in DepositArgs :
        (/\ is_initialized(pool)
         /\ ~is_dead(pool)
         /\ pool.merkle_tree.next_index < Pow2(pool.merkle_tree.depth)
         /\ a.is_signer
         /\ a.signer = a.depositor
         /\ a.depositor_account \in DepAccts
         /\ a.value \in 0..U64_MAX)
            => deposit(pool, depositors, a).result = "Ok"

\* the two LeanIMTStateZC of the pool record
LeanTrees == {lean.state_tree, lean.asp_tree}

\* leaves offered to a tree: the zero digest, two further digests, and the
\* two leaves the model's next insert chooses from
LeafInputs == {Zero, Digest(1), Digest(2)}

\* C26: before any insert root() is the all-zero digest; for every leaf x,
\* insert(x) on the initialized tree returns Ok(x) and leaves size = 1,
\* depth = 0 and root() = x
C26_LeanSingleLeaf ==
    \A t \in LeanTrees :
        /\ t.size = 0 =>
               /\ t = lean_initialize
               /\ lean_root(t) = Zero
               /\ \A x \in LeafInputs \cup LeanLeafChoices(t, 100) :
                      LET r == lean_insert(t, x) IN
                      /\ r.result = "Ok"
                      /\ r.node = x
                      /\ r.tree.size = 1
                      /\ r.tree.depth = 0
                      /\ lean_root(r.tree) = x
        /\ t.size = 1 =>
               /\ t.depth = 0
               /\ lean_root(t) = t.leaf_indices[1]

C26_Witness ==
    /\ last.op = "insert_state_commitment"
    /\ last.result = "Ok"
    /\ lean.state_tree.size = 1
    /\ lean.state_tree.depth = 0
    /\ lean_root(lean.state_tree) = last.args.leaf

\* the leaves inserted into a tree of the pool record, in order: the leaf
\* list of the tree while it has room for every leaf, the log for the state
\* tree
LeavesOf(t) == IF t = lean.state_tree THEN InsertedLeaves ELSE t.leaf_indices

\* the reference construction: hash adjacent pairs level by level, an
\* unpaired last node moving up unchanged; the root of no leaves is zero
RECURSIVE LeanRef(_)
LeanRef(nodes) ==
    IF Len(nodes) = 0 THEN Zero
    ELSE IF Len(nodes) = 1 THEN nodes[1]
    ELSE LeanRef([i \in 1..((Len(nodes) + 1) \div 2) |->
                     IF 2 * i <= Len(nodes)
                     THEN hash_two(nodes[2 * i - 1], nodes[2 * i])
                     ELSE nodes[2 * i - 1]])

\* C27: for every sequence of distinct leaves inserted (within the capacity
\* of the side nodes), root() is the root of the reference construction over
\* the leaves in order; two leaves give hash2(x, y), three give
\* hash2(hash2(x, y), z), four give hash2(hash2(x1, x2), hash2(x3, x4)); and
\* the value a further insert returns is the root() it leaves behind, again
\* that of the reference construction
C27_LeanRootReference ==
    \A t \in LeanTrees :
        t.depth <= LEAN_MAX_TREE_DEPTH =>
            LET l == LeavesOf(t) IN
            /\ Len(l) = t.size
            /\ lean_root(t) = LeanRef(l)
            /\ t.size = 2 => lean_root(t) = hash_two(l[1], l[2])
            /\ t.size = 3 => lean_root(t) = hash_two(hash_two(l[1], l[2]), l[3])
            /\ t.size = 4 =>
                   lean_root(t) = hash_two(hash_two(l[1], l[2]), hash_two(l[3], l[4]))
            /\ \A x \in LeafInputs \cup LeanLeafChoices(t, 100) :
                   LET r == lean_insert(t, x) IN
                   r.result = "Ok" =>
                       /\ r.node = lean_root(r.tree)
                       /\ r.node = LeanRef(Append(l, x))

C27_Witness ==
    /\ last.op = "insert_state_commitment"
    /\ last.result = "Ok"
    /\ lean.state_tree.size = 3
    /\ lean.state_tree.depth = 2
    /\ lean_root(lean.state_tree) =
           hash_two(hash_two(lean.state_tree.leaf_indices[1], lean.state_tree.leaf_indices[2]),
                    last.args.leaf)

\* the least d with 2^d >= n
CeilLog2(n) == CHOOSE d \in 0..(LEAN_MAX_TREE_DEPTH + 1) : Pow2(d) >= n /\ (d = 0 \/ Pow2(d - 1) < n)

\* C28: in every state reached by initialize and inserts, depth = 0 exactly
\* when size <= 1, depth = ceil(log2(size)) when size >= 1 (3 with five
\* leaves) and root() is side_nodes[depth]; no insert decreases the depth
\* and none increases it by more than 1
C28_LeanDepthRule ==
    /\ [](\A t \in LeanTrees :
              /\ (t.depth = 0) <=> (t.size <= 1)
              /\ t.size >= 1 => t.depth = CeilLog2(t.size)
              /\ t.size = 5 => t.depth = 3
              /\ t.depth <= LEAN_MAX_TREE_DEPTH => lean_root(t) = t.side_nodes[t.depth]
              /\ \A x \in LeafInputs \cup LeanLeafChoices(t, 100) :
                     LET r == lean_insert(t, x) IN
                     r.tree.depth \in {t.depth, t.depth + 1})
    /\ [][/\ lean'.state_tree.depth \in {lean.state_tree.depth, lean.state_tree.depth + 1}
          /\ lean'.asp_tree.depth \in {lean.asp_tree.depth, lean.asp_tree.depth + 1}]_vars

C28_Witness ==
    /\ last.op = "insert_state_commitment"
    /\ last.result = "Ok"
    /\ lean.state_tree.size = 5
    /\ lean.state_tree.depth = 3
    /\ lean.asp_tree.size = 2
    /\ lean.asp_tree.depth = 1

\* two byte strings of one length that differ in exactly one byte
OneByteApart(d1, d2) ==
    /\ Len(d1) = Len(d2)
    /\ Cardinality({i \in 1..Len(d1) : d1[i] # d2[i]}) = 1

\* C29: for any two calls of compute_context, equal (processor, data, scope)
\* give equal contexts, and contexts differ when the calls differ in the
\* scope alone, in a single byte of the withdrawal's data alone, or in any
\* way in the data or the scope (Keccak being collision free)
C29_ContextBinding ==
    last.op = "compute_context_bytes" =>
        LET a == last.args.before
            b == last.args.this
        IN  /\ (a.withdrawal = b.withdrawal /\ a.scope = b.scope) => a.context = b.context
            /\ (a.withdrawal = b.withdrawal /\ a.scope # b.scope) => a.context # b.context
            /\ (/\ a.withdrawal.processooor = b.withdrawal.processooor
                 /\ a.scope = b.scope
                 /\ OneByteApart(a.withdrawal.data, b.withdrawal.data))
                    => a.context # b.context
            /\ (a.withdrawal.data # b.withdrawal.data \/ a.scope # b.scope)
                    => a.context # b.context

C29_Witness ==
    /\ last.op = "compute_context_bytes"
    /\ last.args.before.scope = last.args.this.scope
    /\ last.args.before.withdrawal.processooor = last.args.this.withdrawal.processooor
    /\ Len(last.args.this.withdrawal.data) = MaxDataLen
    /\ OneByteApart(last.args.before.withdrawal.data, last.args.this.withdrawal.data)
    /\ last.args.before.context # last.args.this.context

\* C30: in every state of the Vec-backed LeanIMT reached by inserts,
\* depth() = 0 when size() <= 1 and depth() = ceil(log2(size())) otherwise:
\* 1 after two inserts, 2 after three or four inserts
C30_VecDepthRule ==
    /\ vec_size(imt) <= 1 => vec_depth(imt) = 0
    /\ vec_size(imt) > 1 => vec_depth(imt) = CeilLog2(vec_size(imt))
    /\ vec_size(imt) = 2 => vec_depth(imt) = 1
    /\ vec_size(imt) \in {3, 4} => vec_depth(imt) = 2

\* 2^d leaves; for a d beyond the integers TLC represents, a number of leaves
\* below 2^d that no tree of the model reaches
ClaimedCapacity(d) == IF d <= 30 THEN Pow2(d) ELSE Pow2(30)

\* the leaves an insert into the Vec-backed LeanIMT is tried with
VecLeafInputs == {Zero, ForeignLeaf, Digest(300 + 2 * vec_size(imt))}

\* C31: a Vec-backed LeanIMT created with max_depth d >= 1 accepts exactly
\* 2^d inserts, the insert at size() = k < 2^d returning index k; the insert
\* at size() = 2^d returns an error and leaves size(), depth() and root()
\* unchanged
C31_VecFullCapacity ==
    imt.max_depth >= 1 =>
        /\ vec_size(imt) <= ClaimedCapacity(imt.max_depth)
        /\ \A leaf \in VecLeafInputs :
           \A r \in {vec_insert(imt, leaf), vec_insert_overflow_checks(imt, leaf)} :
               IF vec_size(imt) < ClaimedCapacity(imt.max_depth)
               THEN /\ r.result = "Ok"
                    /\ r.index = vec_size(imt)
                    /\ vec_size(r.tree) = vec_size(imt) + 1
               ELSE /\ r.result # "Ok"
                    /\ vec_size(r.tree) = vec_size(imt)
                    /\ vec_depth(r.tree) = vec_depth(imt)
                    /\ vec_root(r.tree) = vec_root(imt)

\* C32: after any sequence of inserts into the Vec-backed LeanIMT, for every
\* index i < size() generate_proof(i) succeeds with the stored leaf and the
\* current root, verify_proof accepts it, and verify_inclusion(leaf_i, i,
\* get_sibling_path(i), depth()) is true; generate_proof(i) for i >= size()
\* returns an error
C32_ProofRoundTrip ==
    /\ \A i \in 0..(vec_size(imt) - 1) :
           LET g == generate_proof(imt, i) IN
           /\ g.result = "Ok"
           /\ g.proof.leaf = imt.nodes[1][i + 1]
           /\ g.proof.root = vec_root(imt)
           /\ verify_proof(imt, g.proof)
           /\ verify_inclusion(imt, imt.nodes[1][i + 1], i, get_sibling_path(imt, i),
                               vec_depth(imt))
    /\ \A i \in vec_size(imt)..(vec_size(imt) + 2) :
           generate_proof(imt, i).result = "Index out of bounds"
    /\ last.op = "verify_inclusion" =>
           IF last.args.index < vec_size(imt)
           THEN /\ last.result = "Ok"
                /\ last.args.proof_ok
                /\ last.args.leaf = imt.nodes[1][last.args.index + 1] => last.args.included
           ELSE last.result = "Index out of bounds"

\* the proof of the fifth of five leaves, which has a single sibling
C32_Witness ==
    /\ last.op = "verify_inclusion"
    /\ vec_size(imt) = 5
    /\ last.args.index = 4
    /\ last.args.leaf = imt.nodes[1][5]
    /\ Len(last.args.siblings) = 1
    /\ last.args.proof_ok
    /\ last.args.included

\* C33: for every pool record made by PrivacyPoolState::new with
\* max_tree_depth in 1..32, and after any deposits, try_to_vec yields exactly
\* PrivacyPoolState::LEN bytes and try_from_slice of those bytes succeeds and
\* returns a record equal to the original in every field
C33_PoolRecordRoundTrip ==
    last.op = "round_trip" =>
        /\ last.args.len = PrivacyPoolState_LEN
        /\ last.result = "Ok"
        /\ last.args.state = pool

\* the ring slot written by the latest add_root
LatestRootSlot(p) == (p.current_root_index + ROOT_HISTORY_SIZE - 1) % ROOT_HISTORY_SIZE

Identity(p) ==
    <<p.is_initialized, p.entrypoint_authority, p.asset_mint, p.scope, p.max_tree_depth>>

C36_DuplicateRejected ==
    \A i \in 1..Len(inserted) :
        LET r == lean_insert(lean.state_tree, inserted[i].leaf)
            c == insert_state_commitment(lean, inserted[i].leaf)
        IN  /\ r.result = "InvalidArgument"
            /\ r.tree = lean.state_tree
            /\ c.result = "InvalidArgument"
            /\ c.pool.roots = lean.roots
            /\ c.pool.current_root_index = lean.current_root_index

\* C37: in every reachable state of LeanIMTStateZC, has_leaf(x) is true for
\* every leaf x that a successful insert has appended and index_of(x) is its
\* insertion index, however many leaves were inserted
C37_DuplicateDetectionComplete ==
    \A i \in 1..Len(inserted) :
        /\ has_leaf(lean.state_tree, inserted[i].leaf)
        /\ index_of(lean.state_tree, inserted[i].leaf) = i - 1

\* C38: verify_inclusion(leaf, index, siblings, depth) of the Vec-backed
\* LeanIMT is false whenever the supplied leaf differs from the leaf stored
\* at that index, also when the siblings are the sibling path of the index
C38_InclusionSound ==
    /\ \A i \in 0..(vec_size(imt) - 1) :
           \A leaf \in VecLeafInputs :
               leaf # imt.nodes[1][i + 1] =>
                   ~verify_inclusion(imt, leaf, i, get_sibling_path(imt, i), vec_depth(imt))
    /\ (/\ last.op = "verify_inclusion"
        /\ last.args.index < vec_size(imt)
        /\ last.args.leaf # imt.nodes[1][last.args.index + 1])
           => ~last.args.included

\* C39: once a successful Deposit has written {depositor, label} into a
\* depositor record, no later transition changes that record, in particular
\* no later Deposit signed by another party that supplies the same record
\* account
C39_DepositorRecordWriteOnce ==
    [][\A d \in DepAccts :
           depositors[d] # ZeroDepositor => depositors'[d] = depositors[d]]_vars

\* C40: for every sequence of distinct leaves inserted into a fresh
\* LeanIMTStateZC and into a fresh Vec-backed LeanIMT with room for them,
\* both inserts succeed and root() is equal after every insert (and is the
\* value the insert of LeanIMTStateZC returned)
C40_ImplementationsAgree ==
    /\ lean.state_tree.size = vec_size(imt)
    /\ lean_root(lean.state_tree) = vec_root(imt)
    /\ last.op = "both_insert" =>
           /\ last.result = "Ok"
           /\ last.args.vec_result = "Ok"
           /\ last.args.node = vec_root(imt)

C40_Witness ==
    /\ last.op = "both_insert"
    /\ vec_size(imt) = 5
    /\ lean.state_tree.depth = 3
    /\ vec_depth(imt) = 3
    /\ vec_root(imt) = hash_two(hash_two(hash_two(inserted[1].leaf, inserted[2].leaf),
                                         hash_two(inserted[3].leaf, inserted[4].leaf)),
                                last.args.leaf)
    /\ lean_root(lean.state_tree) = vec_root(imt)

====
